---------------------------- MODULE Spec2Model ----------------------------
(***************************************************************************)
(* Model of the meetmind front end (frontend/src/views).                   *)
(*                                                                         *)
(* TranscriptionView.vue: the two polling watchers (recording status and   *)
(* transcript readiness), the retry action, the media playback controller, *)
(* the speaker statistics, the highlighted segment and the inline editors  *)
(* (speaker label, recording title, recording date).                       *)
(*                                                                         *)
(* MinutesView.vue: the minutes page (persisted minutes and their          *)
(* streamed generation) and the project workspace (chat stream, generation *)
(* of the knowledge base).  The router shows one view at a time.           *)
(*                                                                         *)
(* Text is held as a sequence of one-character strings, so that            *)
(* toLowerCase() and includes() are computed rather than assumed.          *)
(* The back end is the environment: it answers the HTTP interface the      *)
(* views consume, with any of its responses, in any order.                 *)
(***************************************************************************)
EXTENDS Integers, Sequences, FiniteSets, Bags, TLC

VARIABLES
    \* ---- TranscriptionView.vue: watchers ----
    view,            \* lifecycle of the component: "setup", "mounted", "unmounted"
    transcript,      \* ref transcript (Null or the fetched transcript)
    recording,       \* ref recording (Null or the fetched recording)
    errorState,      \* ref errorState (text)
    pollInterval,    \* ref pollInterval: NoTimer (null) or a timer id
    statusInterval,  \* ref statusInterval: NoTimer (null) or a timer id
    activePoll,      \* ids of the live interval timers that call fetchTranscript
    activeStatus,    \* ids of the live interval timers that call fetchRecording
    timerSeq,        \* last id handed out by setInterval
    net,             \* bag of HTTP requests in flight
    \* ---- TranscriptionView.vue: media playback controller ----
    audioRef,        \* TRUE when a media element is bound (audioRef.value non-null)
    el,              \* the media element: paused, ended, currentTime, duration, readyState
    isPlaying,       \* ref isPlaying
    currentTime,     \* ref currentTime (ms)
    duration,        \* ref duration (ms)
    stopAt,          \* ref stopAt: NoStop (null) or an end offset in ms
    playPromises,    \* bag of play() promises of seekTo not yet settled
    metaListeners,   \* bag of one-shot 'loadedmetadata' listeners added by seekTo
    endedPending,    \* an 'ended' event is queued for onEnded
    playbackRate,    \* ref playbackRate, in hundredths (1.25 is 125)
    rateHistory,     \* history: the rates held before the last changeSpeed calls
    \* ---- router ----
    route,           \* the view the router shows: "transcription", "minutes", "project-detail"
    \* ---- MinutesView.vue: project workspace, chat ----
    chatInput,       \* ref chatInput (text)
    currentSessionId, \* ref currentSessionId: NoSession (null) or a session id
    isChatting,      \* ref isChatting
    chatMessages,    \* ref chatMessages: user messages and references to assistant messages
    chatSessions,    \* ref chatSessions: the ids of the sessions listed
    chatCalls,       \* the invocations of sendChatMessage: position, assistantMsg, stream
    chatNet,         \* bag of session-list requests in flight
    \* ---- MinutesView.vue: minutes page ----
    minutesView,     \* position of onMounted: "setup", "recording", "minutes", "mounted"
    minutesRecording, \* ref recording of the minutes page
    minutes,         \* ref minutes (Null or the persisted minutes)
    loading,         \* ref loading
    isGenerating,    \* ref isGenerating
    streamContent,   \* ref streamContent (text)
    streamCalls,     \* the invocations of startStreaming: position, chunks to come
    minutesNet,      \* bag of fetchMinutes calls in flight, each with its caller
    elMessage,       \* the last notification shown by ElMessage
    \* ---- MinutesView.vue: project workspace, knowledge base ----
    projectView,     \* lifecycle of the workspace: "setup", "mounted"
    availableMinutes, \* computed availableMinutes: the minutes ids of ref recordings
    documents,       \* ref documents: the ids of the project's documents
    knowledgeBase,   \* ref knowledgeBase (Null or its id and content)
    isGeneratingKB,  \* ref isGeneratingKB
    showSelectMinutesModal, \* ref showSelectMinutesModal
    showResearchModal, \* ref showResearchModal
    researchStatusMessage, \* ref researchStatusMessage (a JSON value)
    selectedMinutesIds, \* ref selectedMinutesIds
    selectedDocumentIds, \* ref selectedDocumentIds
    kbCalls,         \* the invocations of confirmGenerate: position, buffer, decoder, stream
                     \* (its events and the bytes still to come)
    kbNet,           \* bag of the workspace's requests in flight (recordings, documents, knowledge base)
    kbMessage,       \* the last notification the workspace showed with ElMessage
    \* ---- back end ----
    server,          \* what the back end holds: the transcript, the recording's filename
                     \* and created_at
    \* ---- TranscriptionView.vue: rendering and inline editors ----
    shown,           \* what the last render showed: speakerStats and activeSegmentIndex
    speakerColors,   \* ref speakerColors: the cache from label to color
    editingSpeaker,  \* ref editingSpeaker: Null or the label edited and the input's text
    isEditingName,   \* ref isEditingName
    editedName,      \* ref editedName (text)
    isEditingDate,   \* ref isEditingDate
    editedDate,      \* ref editedDate: NoDate (null) or a Date (an instant)
    editNet,         \* bag of the editors' PUT requests in flight, each with its body
    viewMessage,     \* the last notification the editors showed with ElMessage
    \* ---- MinutesView.vue: editor of the minutes body ----
    isEditingMinutes, \* ref isEditingMinutes
    editedMinutesContent, \* ref editedMinutesContent (text)
    \* ---- MinutesView.vue: project workspace, tabs and rendered chat ----
    activeTab,       \* ref activeTab: "files", "kb", "settings" or "chat"
    activeKbSection, \* ref activeKbSection
    fileTypeFilter,  \* ref fileTypeFilter
    rendered,        \* what v-html shows for the last chat message: text, links, badges
    sessionNet,      \* bag of the session requests in flight (create, load messages)
    \* ---- TranscriptionView.vue: search ----
    searchQuery      \* ref searchQuery (text)

watchVars == <<view, transcript, recording, errorState, pollInterval, statusInterval,
               activePoll, activeStatus, timerSeq, net>>
playerVars == <<audioRef, el, isPlaying, currentTime, duration, stopAt,
                playPromises, metaListeners, endedPending>>
speedVars == <<playbackRate, rateHistory>>
chatVars == <<chatInput, currentSessionId, isChatting, chatMessages, chatSessions,
              chatCalls, chatNet>>
minutesVars == <<minutesView, minutesRecording, minutes, loading, isGenerating,
                 streamContent, streamCalls, minutesNet, elMessage>>
kbVars == <<projectView, availableMinutes, documents, knowledgeBase, isGeneratingKB,
            showSelectMinutesModal, showResearchModal, researchStatusMessage,
            selectedMinutesIds, selectedDocumentIds, kbCalls, kbNet, kbMessage>>
editVars == <<server, shown, speakerColors, editingSpeaker, isEditingName, editedName,
              isEditingDate, editedDate, editNet, viewMessage, isEditingMinutes,
              editedMinutesContent>>
\* the tabs and the chat panel of the workspace, the search of the recording view
panelVars == <<activeTab, activeKbSection, fileTypeFilter, rendered, sessionNet, searchQuery>>
vars == <<watchVars, playerVars, speedVars, route, chatVars, minutesVars, kbVars, editVars,
          panelVars>>

\* what the actions of one part of the view leave alone
nonWatchVars == <<playerVars, speedVars, route, chatVars, minutesVars, kbVars, editVars,
    panelVars>>
nonPlayerVars == <<watchVars, speedVars, route, chatVars, minutesVars, kbVars, editVars,
    panelVars>>
nonSpeedVars == <<watchVars, audioRef, isPlaying, currentTime, duration, stopAt,
                  playPromises, metaListeners, endedPending, route, chatVars,
                  minutesVars, kbVars, editVars,
    panelVars>>
nonChatVars == <<watchVars, playerVars, speedVars, route, minutesVars, kbVars, editVars,
    panelVars>>
nonMinutesVars == <<watchVars, playerVars, speedVars, route, chatVars, kbVars, editVars,
    panelVars>>
nonKBVars == <<watchVars, playerVars, speedVars, route, chatVars, minutesVars, editVars,
    panelVars>>
nonProjectVars == <<watchVars, playerVars, speedVars, route, minutesVars, editVars,
    panelVars>>
\* what the tabs and the chat panel of the workspace leave alone, besides the
\* route, the chat and the knowledge base
nonWorkspaceVars == <<watchVars, playerVars, speedVars, minutesVars, editVars>>

----------------------------------------------------------------------------
(* Bounds of the model *)

MaxTimers == 4      \* setInterval calls explored
MaxInflight == 2    \* transcript fetches in flight at once
MaxStatusInflight == 1 \* recording fetches in flight at once
MaxRetryInflight == 1 \* retry requests in flight at once
MediaDuration == 20 \* length of the media, in seconds
MaxPromises == 2    \* play() promises of seekTo not yet settled
MaxDeferred == 2    \* seekTo calls waiting for the metadata
MaxChatCalls == 2   \* invocations of sendChatMessage that pass its guard
MaxSessionFetches == 1 \* session-list requests in flight at once
MaxStreamCalls == 2 \* invocations of startStreaming
MaxDraftFetches == 1 \* fetchMinutes calls of the Save Draft button in flight at once
MaxKBCalls == 1     \* invocations of confirmGenerate that pass its guard
MaxShare == 2       \* longest segment of the generated transcripts, in seconds
MaxEditInflight == 1 \* update requests of the inline editors in flight at once
MaxNameInflight == 2 \* update requests of the title in flight at once
MaxSessionRequests == 2 \* session requests (messages, new session) in flight at once
MaxSessions == 3    \* sessions of the chat, those created included

----------------------------------------------------------------------------
(* Text *)

UpperCase == <<"A","B","C","D","E","F","G","H","I","J","K","L","M",
               "N","O","P","Q","R","S","T","U","V","W","X","Y","Z">>
LowerCase == <<"a","b","c","d","e","f","g","h","i","j","k","l","m",
               "n","o","p","q","r","s","t","u","v","w","x","y","z">>

\* String.prototype.toLowerCase, one character
LowerChar(c) ==
    IF \E i \in DOMAIN UpperCase : UpperCase[i] = c
    THEN LowerCase[CHOOSE i \in DOMAIN UpperCase : UpperCase[i] = c]
    ELSE c

\* String.prototype.toLowerCase
ToLowerCase(s) == [i \in DOMAIN s |-> LowerChar(s[i])]

\* String.prototype.includes
Includes(s, t) ==
    \E i \in 0..(Len(s) - Len(t)) : SubSeq(s, i + 1, i + Len(t)) = t

EmptyText == <<>>

\* 'Transcription failed. Please try again.'
MsgTranscriptionFailed == <<"T","r","a","n","s","c","r","i","p","t","i","o","n"," ","f","a","i","l","e","d","."," ","P","l","e","a","s","e"," ","t","r","y"," ","a","g","a","i","n",".">>
\* 'Unexpected error fetching transcript.'
MsgUnexpected == <<"U","n","e","x","p","e","c","t","e","d"," ","e","r","r","o","r"," ","f","e","t","c","h","i","n","g"," ","t","r","a","n","s","c","r","i","p","t",".">>
\* 'Retry failed. Please check settings.'
MsgRetryFailed == <<"R","e","t","r","y"," ","f","a","i","l","e","d","."," ","P","l","e","a","s","e"," ","c","h","e","c","k"," ","s","e","t","t","i","n","g","s",".">>
\* 'failed'
KeywordFailed == <<"f","a","i","l","e","d">>

\* detail of a 404 while the job is still running: absent, 'not ready'
PendingDetails == { <<>>, <<"n","o","t"," ","r","e","a","d","y">> }
\* detail of a 404 after the job failed: 'Job FAILED'
FailedDetails == { <<"J","o","b"," ","F","A","I","L","E","D">> }
\* error_message of a recording whose job failed: absent, 'ASR crash'
ErrorMessages == { <<>>, <<"A","S","R"," ","c","r","a","s","h">> }

----------------------------------------------------------------------------
(* Text of the event streams.  The elements of a text are its characters; a
   fixed word of the protocol ("event:", "answer", "content", ...) is kept
   whole as one element, so a chunk boundary never falls inside such a word. *)

\* String.prototype.startsWith
StartsWith(s, p) == Len(p) <= Len(s) /\ SubSeq(s, 1, Len(p)) = p

\* the first index from i on at which t occurs in s, 0 when it does not
RECURSIVE IndexFrom(_, _, _)
IndexFrom(s, t, i) ==
    IF i + Len(t) - 1 > Len(s) THEN 0
    ELSE IF SubSeq(s, i, i + Len(t) - 1) = t THEN i
    ELSE IndexFrom(s, t, i + 1)

\* the first index (from 1) at which t occurs in s, 0 when it does not
FirstIndexOf(s, t) == IndexFrom(s, t, 1)

\* String.prototype.split with a non-empty separator
RECURSIVE SplitText(_, _)
SplitText(s, sep) ==
    LET i == FirstIndexOf(s, sep)
    IN  IF i = 0 THEN <<s>>
        ELSE <<SubSeq(s, 1, i - 1)>> \o SplitText(SubSeq(s, i + Len(sep), Len(s)), sep)

\* Array.prototype.join
RECURSIVE JoinText(_, _)
JoinText(parts, sep) ==
    IF parts = <<>> THEN <<>>
    ELSE IF Len(parts) = 1 THEN parts[1]
    ELSE parts[1] \o sep \o JoinText(Tail(parts), sep)

\* String.prototype.replace with a string pattern: the first occurrence only
ReplaceFirst(s, pat, rep) ==
    LET i == FirstIndexOf(s, pat)
    IN  IF i = 0 THEN s
        ELSE SubSeq(s, 1, i - 1) \o rep \o SubSeq(s, i + Len(pat), Len(s))

WhiteSpace == {" ", "\n"}

RECURSIVE TrimStart(_)
TrimStart(s) == IF s # <<>> /\ Head(s) \in WhiteSpace THEN TrimStart(Tail(s)) ELSE s

RECURSIVE TrimEnd(_)
TrimEnd(s) ==
    IF s # <<>> /\ s[Len(s)] \in WhiteSpace THEN TrimEnd(SubSeq(s, 1, Len(s) - 1)) ELSE s

\* String.prototype.trim
Trim(s) == TrimEnd(TrimStart(s))

----------------------------------------------------------------------------
(* JSON.  A value is undefined, a string, a number or an object (its members in
   the order they were written). *)

JValue(kind, text, number, members) == [k |-> kind, s |-> text, n |-> number, o |-> members]
JUndefined == JValue("undefined", <<>>, 0, <<>>)
JString(t) == JValue("str", t, 0, <<>>)
JNumber(n) == JValue("num", <<>>, n, <<>>)
JObject(members) == JValue("obj", <<>>, 0, members)

\* the numbers the streams carry, as they are written
Digits == [d \in {"1", "2", "7"} |-> CASE d = "1" -> 1 [] d = "2" -> 2 [] d = "7" -> 7]

\* the result of a parsing step: the value read and the text after it
Parsed(val, rest) == [ok |-> TRUE, val |-> val, rest |-> rest]
ParseError == [ok |-> FALSE, val |-> JUndefined, rest |-> <<>>]

\* JSON.parse, a string literal after its opening quote (no escapes are sent)
ParseString(s) ==
    LET close == FirstIndexOf(s, <<"\"">>)
    IN  IF close = 0 THEN ParseError
        ELSE Parsed(JString(SubSeq(s, 1, close - 1)), SubSeq(s, close + 1, Len(s)))

RECURSIVE ParseValue(_)
RECURSIVE ParseMembers(_, _)

\* JSON.parse, the members of an object after its opening brace or after a comma
ParseMembers(s, members) ==
    LET t == TrimStart(s)
    IN  IF t = <<>> \/ Head(t) # "\"" THEN ParseError
        ELSE LET key == ParseString(Tail(t))
                 colon == IF key.ok THEN TrimStart(key.rest) ELSE <<>>
             IN  IF ~key.ok \/ colon = <<>> \/ Head(colon) # ":" THEN ParseError
                 ELSE LET val == ParseValue(Tail(colon))
                          next == IF val.ok THEN TrimStart(val.rest) ELSE <<>>
                          all == Append(members, <<key.val.s, val.val>>)
                      IN  IF ~val.ok \/ next = <<>> THEN ParseError
                          ELSE IF Head(next) = "}" THEN Parsed(JObject(all), Tail(next))
                          ELSE IF Head(next) = "," THEN ParseMembers(Tail(next), all)
                          ELSE ParseError

\* JSON.parse, one value
ParseValue(s) ==
    LET t == TrimStart(s)
    IN  IF t = <<>> THEN ParseError
        ELSE IF Head(t) = "\"" THEN ParseString(Tail(t))
        ELSE IF Head(t) \in DOMAIN Digits THEN Parsed(JNumber(Digits[Head(t)]), Tail(t))
        ELSE IF Head(t) = "{"
             THEN IF TrimStart(Tail(t)) # <<>> /\ Head(TrimStart(Tail(t))) = "}"
                  THEN Parsed(JObject(<<>>), Tail(TrimStart(Tail(t))))
                  ELSE ParseMembers(Tail(t), <<>>)
        ELSE ParseError

\* JSON.parse: ok is FALSE when it throws
JSONParse(s) ==
    LET r == ParseValue(s)
    IN  IF r.ok /\ TrimStart(r.rest) = <<>> THEN r ELSE ParseError

\* data.name: the member of that name, undefined when there is none
Member(data, name) ==
    IF data.k = "obj" /\ \E i \in DOMAIN data.o : data.o[i][1] = <<name>>
    THEN data.o[CHOOSE i \in DOMAIN data.o :
                   /\ data.o[i][1] = <<name>>
                   /\ \A j \in DOMAIN data.o : data.o[j][1] = <<name>> => j <= i][2]
    ELSE JUndefined

\* a value converted to a string (string concatenation, template literal)
StringOf(v) ==
    CASE v.k = "str" -> v.s
      [] v.k = "num" -> <<CHOOSE d \in DOMAIN Digits : Digits[d] = v.n>>
      [] v.k = "obj" -> <<"[object Object]">>
      [] OTHER -> <<"undefined">>

\* a value converted to a boolean (if (x), !x)
Truthy(v) ==
    CASE v.k = "str" -> v.s # <<>>
      [] v.k = "num" -> v.n # 0
      [] v.k = "obj" -> TRUE
      [] OTHER -> FALSE

----------------------------------------------------------------------------
(* Wire format of the event streams the back end sends: one block per event,
   "event: <name>\ndata: <json>\n\n". *)

RECURSIVE WriteMembers(_)
\* a value as JSON text
WriteJSON(v) ==
    CASE v.k = "str" -> <<"\"">> \o v.s \o <<"\"">>
      [] v.k = "num" -> StringOf(v)
      [] v.k = "obj" -> <<"{">> \o WriteMembers(v.o) \o <<"}">>
      [] OTHER -> <<"null">>
WriteMembers(members) ==
    IF members = <<>> THEN <<>>
    ELSE LET m == Head(members)
             one == <<"\"">> \o m[1] \o <<"\"", ":">> \o WriteJSON(m[2])
         IN  IF Len(members) = 1 THEN one
             ELSE one \o <<",">> \o WriteMembers(Tail(members))

\* an event as the back end sends it: its name, its payload and the text of its
\* data line
Event(name, value) == [event |-> name, value |-> value, data |-> WriteJSON(value)]

\* the block of one event
Block(ev) == <<"event:", " ", ev.event, "\n", "data:", " ">> \o ev.data \o <<"\n", "\n">>

\* the text of a stream of events
RECURSIVE Wire(_)
Wire(evs) == IF evs = <<>> THEN <<>> ELSE Block(Head(evs)) \o Wire(Tail(evs))

----------------------------------------------------------------------------
(* UTF-8: what the streams carry and what TextDecoder makes of it *)

\* the bytes of the two-byte character U+00E9, and what a decoder gives for it
\* and for a sequence it cannot decode (U+FFFD)
LeadByte == "C3"
ContinuationByte == "A9"

\* UTF-8 of a text: U+00E9 takes two bytes, every other character one
RECURSIVE Encode(_)
Encode(text) ==
    IF text = <<>> THEN <<>>
    ELSE IF Len(text) = 1
         THEN IF text[1] = "U+00E9" THEN <<LeadByte, ContinuationByte>> ELSE text
    ELSE LET half == Len(text) \div 2
         IN  Encode(SubSeq(text, 1, half)) \o Encode(SubSeq(text, half + 1, Len(text)))

\* what a decoder makes of the byte at position i: a lead byte gives U+00E9
\* with the continuation byte after it and U+FFFD without, a continuation byte
\* gives nothing after its lead byte and U+FFFD without one
DecodeAt(bytes, i) ==
    IF bytes[i] = LeadByte
    THEN IF i < Len(bytes) /\ bytes[i + 1] = ContinuationByte
         THEN <<"U+00E9">>
         ELSE <<"U+FFFD">>
    ELSE IF bytes[i] = ContinuationByte
         THEN IF i > 1 /\ bytes[i - 1] = LeadByte THEN <<>> ELSE <<"U+FFFD">>
    ELSE <<bytes[i]>>

\* the decoding of the bytes at positions lo..hi
RECURSIVE DecodeRange(_, _, _)
DecodeRange(bytes, lo, hi) ==
    IF lo > hi THEN <<>>
    ELSE IF lo = hi THEN DecodeAt(bytes, lo)
    ELSE LET mid == (lo + hi) \div 2
         IN  DecodeRange(bytes, lo, mid) \o DecodeRange(bytes, mid + 1, hi)

\* new TextDecoder().decode(value): every chunk is decoded on its own
Decode(bytes) == DecodeRange(bytes, 1, Len(bytes))

\* decoder.decode(value, {stream: true}): a lead byte at the end of a chunk is
\* kept for the next chunk; pending tells whether one is kept
DecodeStream(pending, bytes) ==
    LET all == (IF pending THEN <<LeadByte>> ELSE <<>>) \o bytes
        held == all # <<>> /\ all[Len(all)] = LeadByte
    IN  [text |-> Decode(IF held THEN SubSeq(all, 1, Len(all) - 1) ELSE all),
         pending |-> held]

----------------------------------------------------------------------------
(* Values *)

Null == [isNull |-> TRUE]
NoTimer == 0
NoStop == -1
NoDate == 0
NaN == -1

\* an HTTP request in flight
Request(kind) == [kind |-> kind]

Send(bag, m) == bag (+) SetToBag({m})
Take(bag, m) == bag (-) SetToBag({m})

\* requests of one kind in flight
InFlight(kind) == CopiesIn(Request(kind), net)

\* a segment of a transcript; start and end are in ms
Segment(speaker, start, end, text) ==
    [speaker_id |-> speaker, start |-> start, end |-> end, text |-> text]

\* the transcript the back end returns: two speakers, the first segment ends
\* where the second starts
TranscriptData ==
    [plain_text |-> <<"h","i">>,
     content |-> << Segment(<<"A">>, 0, 5000, <<"h">>),
                    Segment(<<"B">>, 5000, 8000, <<"i">>),
                    Segment(<<"A">>, 8000, 9000, <<"h">>) >>]

\* a created_at as the back end writes it, or as Date.prototype.toISOString
\* writes it: the same instant has two spellings
DateString(instant, form) == [instant |-> instant, form |-> form]

\* transcripts of the back end: two speakers with segments that touch; segments
\* of no length; three speakers whose shares round to 17, 17 and 67; no
\* segment; three speakers one after the other with any shares up to MaxShare
TranscriptInputs ==
    { TranscriptData.content,
      << Segment(<<"A">>, 5000, 5000, <<"h">>), Segment(<<"B">>, 8000, 8000, <<"i">>) >>,
      << Segment(<<"A">>, 0, 1000, <<"h">>), Segment(<<"B">>, 5000, 6000, <<"i">>),
         Segment(<<"C">>, 6000, 10000, <<"h">>) >>,
      << >> }
      \cup { << Segment(<<"A">>, 0, 1000 * a, <<"h">>),
                Segment(<<"B">>, 1000 * a, 1000 * (a + b), <<"i">>),
                Segment(<<"C">>, 1000 * (a + b), 1000 * (a + b + c), <<"h">>) >> :
              a \in 0..MaxShare, b \in 0..MaxShare, c \in 0..MaxShare }

\* what the back end holds when the view opens
ServerData ==
    [transcript |-> TranscriptData,
     filename |-> <<"a">>,
     created_at |-> DateString(1, "server")]

----------------------------------------------------------------------------
(* Back end (environment).  A request in flight is answered when its response
   is delivered; the answers are those of the HTTP interface the view consumes,
   in any order and at any time. *)

Response(status) ==
    [status |-> status, detail |-> <<>>, rstatus |-> "", emsg |-> <<>>]

\* GET /recordings/{id}/transcript: the transcript, 404 with a detail, another
\* error status, or no response at all (status 0)
TranscriptResponses ==
    {Response(200), Response(500), Response(0)}
      \cup {[Response(404) EXCEPT !.detail = d] : d \in PendingDetails \cup FailedDetails}

\* GET /recordings/{id}: the recording with its lifecycle status, or no response
RecordingResponses ==
    {[Response(200) EXCEPT !.rstatus = st] : st \in {"transcribing", "completed"}}
      \cup {[Response(200) EXCEPT !.rstatus = "error", !.emsg = e] : e \in ErrorMessages}
      \cup {Response(0)}

\* POST /recordings/{id}/transcribe: accepted or refused
TranscribeResponses == {Response(200), Response(500)}

----------------------------------------------------------------------------
(* TranscriptionView.vue: status watcher *)

\* fetchRecording, up to the await: the request is sent
FetchRecordingCall(bag) == Send(bag, Request("getRecording"))

\* fetchRecording, try branch: recording.value = res.data, then the status
\* test; held is what the back end held when it wrote the response
FetchRecordingReceived(r, held) ==
    /\ recording' = [status |-> r.rstatus, error_message |-> r.emsg,
                     filename |-> held.filename, created_at |-> held.created_at]
    /\ IF r.rstatus = "error"
       THEN /\ errorState' = IF r.emsg # EmptyText THEN r.emsg ELSE MsgTranscriptionFailed
            /\ IF pollInterval # NoTimer
               THEN /\ activePoll' = activePoll \ {pollInterval}
                    /\ pollInterval' = NoTimer
               ELSE UNCHANGED <<activePoll, pollInterval>>
       ELSE /\ errorState' = EmptyText
            /\ UNCHANGED <<activePoll, pollInterval>>

\* the try branch for a response written as it is delivered
FetchRecordingOk(r) == FetchRecordingReceived(r, server)

\* fetchRecording, catch branch
FetchRecordingFailed(r) ==
    /\ recording' = Null
    /\ UNCHANGED <<errorState, activePoll, pollInterval>>

\* fetchRecording, from the response on
FetchRecordingResponse(r) ==
    /\ BagIn(Request("getRecording"), net)
    /\ net' = Take(net, Request("getRecording"))
    /\ IF r.status = 200 THEN FetchRecordingOk(r) ELSE FetchRecordingFailed(r)
    /\ UNCHANGED <<view, transcript, statusInterval, activeStatus, timerSeq>>
    /\ UNCHANGED nonWatchVars

\* a response to GET /recordings/{id} on its way: the back end wrote it from
\* what it held then
RecordingAnswer(r, held) ==
    [kind |-> "recordingAnswer", response |-> r,
     held |-> [filename |-> held.filename, created_at |-> held.created_at]]

\* the responses to GET /recordings/{id} on their way
RecordingAnswers == {a \in BagToSet(net) : a.kind = "recordingAnswer"}

\* the back end answers a GET /recordings/{id}; the response is delivered later
ServeRecording(r) ==
    /\ BagIn(Request("getRecording"), net)
    /\ r.status = 200
    /\ RecordingAnswers = {}
    /\ net' = Send(Take(net, Request("getRecording")), RecordingAnswer(r, server))
    /\ UNCHANGED <<view, transcript, recording, errorState, pollInterval,
                   statusInterval, activePoll, activeStatus, timerSeq>>
    /\ UNCHANGED nonWatchVars

\* fetchRecording, from the delivery of such a response on
FetchRecordingDelivered(a) ==
    /\ a \in RecordingAnswers
    /\ net' = Take(net, a)
    /\ FetchRecordingReceived(a.response, a.held)
    /\ UNCHANGED <<view, transcript, statusInterval, activeStatus, timerSeq>>
    /\ UNCHANGED nonWatchVars

\* a tick of the interval timer started in onMounted
StatusTick(t) ==
    /\ t \in activeStatus
    /\ InFlight("getRecording") < MaxStatusInflight
    /\ net' = FetchRecordingCall(net)
    /\ UNCHANGED <<view, transcript, recording, errorState, pollInterval,
                   statusInterval, activePoll, activeStatus, timerSeq>>
    /\ UNCHANGED nonWatchVars

----------------------------------------------------------------------------
(* TranscriptionView.vue: transcript watcher *)

\* fetchTranscript, up to the await: the request is sent
FetchTranscriptCall(bag) == Send(bag, Request("getTranscript"))

\* fetchTranscript, try branch: the transcript is kept and the timer cleared
FetchTranscriptOk(r) ==
    /\ transcript' = server.transcript
    /\ IF pollInterval # NoTimer
       THEN /\ activePoll' = activePoll \ {pollInterval}
            /\ pollInterval' = NoTimer
       ELSE UNCHANGED <<activePoll, pollInterval>>
    /\ UNCHANGED <<errorState, timerSeq>>

\* faulty variant: the keyword is looked for without toLowerCase()
IsTerminalDetailCaseSensitive(detail) ==
    detail # EmptyText /\ Includes(detail, KeywordFailed)

\* detail && detail.toLowerCase().includes('failed')
IsTerminalDetail(detail) ==
    detail # EmptyText /\ Includes(ToLowerCase(detail), KeywordFailed)

\* faulty variant: the timer is started whether or not one is recorded
StartPollAlways ==
    /\ timerSeq < MaxTimers
    /\ timerSeq' = timerSeq + 1
    /\ pollInterval' = timerSeq + 1
    /\ activePoll' = activePoll \cup {timerSeq + 1}

\* if (!pollInterval.value) pollInterval.value = setInterval(fetchTranscript, 3000)
StartPollIfNone ==
    IF pollInterval = NoTimer
    THEN /\ timerSeq < MaxTimers
         /\ timerSeq' = timerSeq + 1
         /\ pollInterval' = timerSeq + 1
         /\ activePoll' = activePoll \cup {timerSeq + 1}
    ELSE UNCHANGED <<timerSeq, pollInterval, activePoll>>

\* fetchTranscript, catch branch, error.response.status === 404
FetchTranscriptNotFound(r) ==
    LET detail == r.detail   \* error.response.data?.detail || ''
    IN  IF IsTerminalDetail(detail)
        THEN /\ errorState' = detail
             /\ IF pollInterval # NoTimer
                THEN /\ activePoll' = activePoll \ {pollInterval}
                     /\ pollInterval' = NoTimer
                ELSE UNCHANGED <<activePoll, pollInterval>>
             /\ UNCHANGED <<transcript, timerSeq>>
        ELSE /\ StartPollIfNone
             /\ UNCHANGED <<transcript, errorState>>

\* fetchTranscript, catch branch, a response with another status
FetchTranscriptOtherStatus(r) ==
    /\ errorState' = MsgUnexpected
    /\ UNCHANGED <<transcript, pollInterval, activePoll, timerSeq>>

\* fetchTranscript, catch branch, no response: console.error only
FetchTranscriptNoResponse(r) ==
    UNCHANGED <<transcript, errorState, pollInterval, activePoll, timerSeq>>

\* fetchTranscript, from the response on, for the call whose request is req
FetchTranscriptAnswered(req, r) ==
    /\ BagIn(req, net)
    /\ net' = Take(net, req)
    /\ CASE r.status = 200 -> FetchTranscriptOk(r)
         [] r.status = 404 -> FetchTranscriptNotFound(r)
         [] r.status = 0   -> FetchTranscriptNoResponse(r)
         [] OTHER          -> FetchTranscriptOtherStatus(r)
    /\ UNCHANGED <<view, recording, statusInterval, activeStatus>>
    /\ UNCHANGED nonWatchVars

\* a call of fetchTranscript is answered
FetchTranscriptResponse(r) == FetchTranscriptAnswered(Request("getTranscript"), r)

\* the request of a fetchTranscript call that began before retryTranscribe
\* returned and is still to be answered
EarlierFetch == [kind |-> "getTranscript", began |-> "before the retry"]

\* such a call is answered, after the retry
EarlierFetchResponse(r) == FetchTranscriptAnswered(EarlierFetch, r)

\* a tick of an interval timer started with setInterval(fetchTranscript, 3000)
PollTick(t) ==
    /\ t \in activePoll
    /\ InFlight("getTranscript") < MaxInflight
    /\ net' = FetchTranscriptCall(net)
    /\ UNCHANGED <<view, transcript, recording, errorState, pollInterval,
                   statusInterval, activePoll, activeStatus, timerSeq>>
    /\ UNCHANGED nonWatchVars

----------------------------------------------------------------------------
(* TranscriptionView.vue: lifecycle and retry *)

\* onMounted
OnMounted ==
    /\ view = "setup"
    /\ view' = "mounted"
    /\ net' = FetchTranscriptCall(FetchRecordingCall(net))
    /\ timerSeq' = timerSeq + 1
    /\ statusInterval' = timerSeq + 1
    /\ activeStatus' = activeStatus \cup {timerSeq + 1}
    /\ UNCHANGED <<transcript, recording, errorState, pollInterval, activePoll>>
    /\ UNCHANGED nonWatchVars

\* onUnmounted: both timers are cleared, the refs keep their ids
OnUnmounted ==
    /\ view = "mounted"
    /\ view' = "unmounted"
    /\ activePoll' = IF pollInterval # NoTimer THEN activePoll \ {pollInterval}
                     ELSE activePoll
    /\ activeStatus' = IF statusInterval # NoTimer THEN activeStatus \ {statusInterval}
                       ELSE activeStatus
    /\ UNCHANGED <<transcript, recording, errorState, pollInterval, statusInterval,
                   timerSeq, net>>
    /\ UNCHANGED nonWatchVars

\* retryTranscribe, up to the await (the retry buttons of the mounted view)
RetryTranscribeCall ==
    /\ view = "mounted"
    /\ InFlight("postTranscribe") < MaxRetryInflight
    /\ net' = Send(net, Request("postTranscribe"))
    /\ UNCHANGED <<view, transcript, recording, errorState, pollInterval,
                   statusInterval, activePoll, activeStatus, timerSeq>>
    /\ UNCHANGED nonWatchVars

\* faulty variant: the recorded timer is not cleared before the new one is started
RetryTranscribeOkNoClear ==
    /\ timerSeq < MaxTimers
    /\ errorState' = EmptyText
    /\ transcript' = Null
    /\ timerSeq' = timerSeq + 1
    /\ pollInterval' = timerSeq + 1
    /\ activePoll' = activePoll \cup {timerSeq + 1}

\* retryTranscribe, try branch after the await
RetryTranscribeOk ==
    /\ timerSeq < MaxTimers
    /\ errorState' = EmptyText
    /\ transcript' = Null
    /\ timerSeq' = timerSeq + 1
    /\ pollInterval' = timerSeq + 1
    /\ activePoll' = (IF pollInterval # NoTimer THEN activePoll \ {pollInterval}
                      ELSE activePoll) \cup {timerSeq + 1}

\* retryTranscribe, catch branch
RetryTranscribeFailed ==
    /\ errorState' = MsgRetryFailed
    /\ UNCHANGED <<transcript, timerSeq, pollInterval, activePoll>>

\* retryTranscribe, from the response on
RetryTranscribeResponse(r) ==
    /\ BagIn(Request("postTranscribe"), net)
    /\ net' = Take(net, Request("postTranscribe"))
    /\ IF r.status = 200 THEN RetryTranscribeOk ELSE RetryTranscribeFailed
    /\ UNCHANGED <<view, recording, statusInterval, activeStatus>>
    /\ UNCHANGED nonWatchVars

----------------------------------------------------------------------------
(* Media element (the browser's HTMLMediaElement behind audioRef).
   Element times are in seconds, the refs of the view in milliseconds; the
   offsets explored are whole seconds, so ms / 1000 is exact. *)

\* a media element before its metadata is known
FreshElement == [paused |-> TRUE, currentTime |-> 0, duration |-> NaN, readyState |-> 0,
                 playbackRate |-> 100]

\* playback positions the element reports, in seconds
Times == {0, 5, 6, 8, 9, MediaDuration}

\* transcript segments whose rows call seekTo(segment.start, segment.end), in ms
Segments == { [start |-> 5000, end |-> 8000],
              [start |-> 0, end |-> 0],
              [start |-> 8000, end |-> 9000],
              [start |-> 1000 * (MediaDuration + 1), end |-> 1000 * (MediaDuration + 2)] }

\* the buttons of the template: seek(-10) and seek(10)
SeekDeltas == {-10, 10}

\* places of a click on the progress bar, as <<numerator, denominator>> of its width
ClickFractions == {<<0, 1>>, <<1, 1>>}

Min(a, b) == IF a <= b THEN a ELSE b
Max(a, b) == IF a >= b THEN a ELSE b

\* HTMLMediaElement.play(): accepted (playback starts, from the beginning when the
\* position is the end) or refused by the browser
ElementPlay(e, accepted) ==
    IF accepted
    THEN [e EXCEPT !.paused = FALSE,
                   !.currentTime = IF e.duration # NaN /\ e.currentTime = e.duration
                                   THEN 0 ELSE e.currentTime]
    ELSE e

\* HTMLMediaElement.pause()
ElementPause(e) == [e EXCEPT !.paused = TRUE]

\* HTMLMediaElement.load(): the element is reset and its resource selected again
ElementLoad(e) == FreshElement

\* the template renders the <audio>/<video> element once the recording has a media_url
BindElement ==
    /\ ~audioRef
    /\ audioRef' = TRUE
    /\ el' = FreshElement
    /\ UNCHANGED <<isPlaying, currentTime, duration, stopAt, playPromises,
                   metaListeners, endedPending>>
    /\ UNCHANGED nonPlayerVars

\* playback advances to a later position; at the end the element pauses itself and
\* queues 'ended'
ElementAdvance(t) ==
    /\ audioRef
    /\ el.readyState >= 1
    /\ ~el.paused
    /\ t \in Times
    /\ t > el.currentTime
    /\ t <= el.duration
    /\ el' = [el EXCEPT !.currentTime = t, !.paused = (t = el.duration)]
    /\ endedPending' = (endedPending \/ t = el.duration)
    /\ UNCHANGED <<audioRef, isPlaying, currentTime, duration, stopAt,
                   playPromises, metaListeners>>
    /\ UNCHANGED nonPlayerVars

\* the element is paused from outside the controller (media key, audio focus)
ExternalPause ==
    /\ audioRef
    /\ ~el.paused
    /\ el' = ElementPause(el)
    /\ UNCHANGED <<audioRef, isPlaying, currentTime, duration, stopAt,
                   playPromises, metaListeners, endedPending>>
    /\ UNCHANGED nonPlayerVars

----------------------------------------------------------------------------
(* TranscriptionView.vue: media playback controller *)

\* faulty variant: the stop point must be passed, not reached
StopReachedStrict(now, stop) == stop # NoStop /\ stop # 0 /\ now > stop

\* stopAt.value && now >= stopAt.value
StopReached(now, stop) == stop # NoStop /\ stop # 0 /\ now >= stop

\* onTimeUpdate
OnTimeUpdate ==
    /\ audioRef
    /\ LET now == el.currentTime * 1000
       IN  /\ currentTime' = now
           /\ IF StopReached(now, stopAt)
              THEN /\ el' = ElementPause(el)
                   /\ isPlaying' = FALSE
                   /\ stopAt' = NoStop
              ELSE UNCHANGED <<el, isPlaying, stopAt>>
    /\ UNCHANGED <<audioRef, duration, playPromises, metaListeners, endedPending>>
    /\ UNCHANGED nonPlayerVars

\* onEnded
OnEnded ==
    /\ endedPending
    /\ endedPending' = FALSE
    /\ isPlaying' = FALSE
    /\ UNCHANGED <<audioRef, el, currentTime, duration, stopAt, playPromises,
                   metaListeners>>
    /\ UNCHANGED nonPlayerVars

\* togglePlay; the promise of play() is dropped
TogglePlay ==
    /\ audioRef
    /\ IF isPlaying
       THEN el' = ElementPause(el)
       ELSE \E accepted \in BOOLEAN : el' = ElementPlay(el, accepted)
    /\ isPlaying' = ~isPlaying
    /\ UNCHANGED <<audioRef, currentTime, duration, stopAt, playPromises,
                   metaListeners, endedPending>>
    /\ UNCHANGED nonPlayerVars

\* faulty variant: the position is not clamped
SeekTargetNoClamp(e, seconds) ==
    IF e.duration = NaN THEN NaN ELSE e.currentTime + seconds

\* the position seek(seconds) assigns: NaN while the duration is unknown
SeekTarget(e, seconds) ==
    IF e.duration = NaN THEN NaN
    ELSE Max(0, Min(e.duration, e.currentTime + seconds))

\* seek(seconds); assigning NaN to currentTime throws after stopAt is cleared
Seek(seconds) ==
    /\ audioRef
    /\ stopAt' = NoStop
    /\ el' = IF SeekTarget(el, seconds) = NaN THEN el
             ELSE [el EXCEPT !.currentTime = SeekTarget(el, seconds)]
    /\ UNCHANGED <<audioRef, isPlaying, currentTime, duration, playPromises,
                   metaListeners, endedPending>>
    /\ UNCHANGED nonPlayerVars

\* click on the progress bar: stopAt = null, then currentTime = percent * duration
\* (assigning NaN throws, after stopAt is cleared)
ProgressClick(f) ==
    /\ stopAt' = NoStop
    /\ el' = IF audioRef /\ el.duration # NaN
             THEN [el EXCEPT !.currentTime = (f[1] * el.duration) \div f[2]]
             ELSE el
    /\ UNCHANGED <<audioRef, isPlaying, currentTime, duration, playPromises,
                   metaListeners, endedPending>>
    /\ UNCHANGED nonPlayerVars

\* doSeekAndPlay, the position assigned for startMs
SeekToPosition(e, startMs) ==
    LET timeInSeconds == startMs \div 1000
    IN  IF timeInSeconds >= 0 /\ timeInSeconds <= e.duration THEN timeInSeconds
        ELSE IF e.duration # 0 /\ timeInSeconds > e.duration THEN e.duration
        ELSE 0

\* doSeekAndPlay, the stop point kept for endMs
StopPoint(endMs) == IF endMs # 0 THEN endMs ELSE NoStop

\* doSeekAndPlay on element e: the element after the seek and play()
DoSeekAndPlay(e, startMs, accepted) ==
    ElementPlay([e EXCEPT !.currentTime = SeekToPosition(e, startMs)], accepted)

\* seekTo(ms, endMs) with the metadata loaded: doSeekAndPlay at once
SeekToNow(seg) ==
    /\ audioRef
    /\ el.readyState >= 1
    /\ BagCardinality(playPromises) < MaxPromises
    /\ \E accepted \in BOOLEAN :
          /\ el' = DoSeekAndPlay(el, seg.start, accepted)
          /\ playPromises' = Send(playPromises, accepted)
    /\ stopAt' = StopPoint(seg.end)
    /\ UNCHANGED <<audioRef, isPlaying, currentTime, duration, metaListeners,
                   endedPending>>
    /\ UNCHANGED nonPlayerVars

\* faulty variant: the seek and play are done at once, and again by the listener
SeekToDeferredEager(seg) ==
    /\ audioRef
    /\ el.readyState < 1
    /\ Len(metaListeners) < MaxDeferred
    /\ BagCardinality(playPromises) < MaxPromises
    /\ metaListeners' = Append(metaListeners, seg)
    /\ el' = DoSeekAndPlay(ElementLoad(el), seg.start, TRUE)
    /\ playPromises' = Send(playPromises, TRUE)
    /\ stopAt' = StopPoint(seg.end)
    /\ UNCHANGED <<audioRef, isPlaying, currentTime, duration, endedPending>>
    /\ UNCHANGED nonPlayerVars

\* seekTo(ms, endMs) before the metadata: a one-shot listener, then element.load()
SeekToDeferred(seg) ==
    /\ audioRef
    /\ el.readyState < 1
    /\ Len(metaListeners) < MaxDeferred
    /\ metaListeners' = Append(metaListeners, seg)
    /\ el' = ElementLoad(el)
    /\ UNCHANGED <<audioRef, isPlaying, currentTime, duration, stopAt,
                   playPromises, endedPending>>
    /\ UNCHANGED nonPlayerVars

\* the then/catch of element.play() in doSeekAndPlay
PlaySettled(accepted) ==
    /\ BagIn(accepted, playPromises)
    /\ playPromises' = Take(playPromises, accepted)
    /\ isPlaying' = IF accepted THEN TRUE ELSE isPlaying
    /\ UNCHANGED <<audioRef, el, currentTime, duration, stopAt, metaListeners,
                   endedPending>>
    /\ UNCHANGED nonPlayerVars

\* the listeners of one 'loadedmetadata' event, in the order they were added:
\* the state after the one-shot listeners ls ran doSeekAndPlay from state st
RECURSIVE RunListeners(_, _, _)
RunListeners(st, ls, outcomes) ==
    IF ls = <<>> THEN st
    ELSE RunListeners(
            [el |-> DoSeekAndPlay(st.el, Head(ls).start, Head(outcomes)),
             stopAt |-> StopPoint(Head(ls).end),
             promises |-> Send(st.promises, Head(outcomes))],
            Tail(ls), Tail(outcomes))

\* 'loadedmetadata': onLoadedMetadata, then the one-shot listeners of seekTo
OnLoadedMetadata ==
    /\ audioRef
    /\ el.readyState = 0
    /\ BagCardinality(playPromises) + Len(metaListeners) <= MaxPromises
    /\ \E outcomes \in [1..Len(metaListeners) -> BOOLEAN] :
          LET loaded == [el EXCEPT !.readyState = 1, !.duration = MediaDuration]
              after == RunListeners([el |-> loaded, stopAt |-> stopAt,
                                     promises |-> playPromises],
                                    metaListeners, outcomes)
          IN  /\ duration' = loaded.duration * 1000
              /\ el' = after.el
              /\ stopAt' = after.stopAt
              /\ playPromises' = after.promises
    /\ metaListeners' = <<>>
    /\ UNCHANGED <<audioRef, isPlaying, currentTime, endedPending>>
    /\ UNCHANGED nonPlayerVars

----------------------------------------------------------------------------
(* TranscriptionView.vue: playback rate.  Rates are held in hundredths. *)

\* const rates = [0.5, 1.0, 1.25, 1.5, 2.0]
rates == <<50, 100, 125, 150, 200>>

\* rates the ref may hold when changeSpeed is called: those of the list, and
\* values that are not in it
RateInputs == {50, 100, 125, 150, 200, 0, 75, 300}

\* Array.prototype.indexOf: the first index (from 0) of x in s, -1 when absent
IndexOf(s, x) ==
    IF \E i \in DOMAIN s : s[i] = x
    THEN (CHOOSE i \in DOMAIN s : s[i] = x /\ \A j \in 1..(i - 1) : s[j] # x) - 1
    ELSE -1

\* faulty variant: the index is not wrapped, the last rate has no successor
NextRateNoWrap(rate) ==
    LET currentIndex == IndexOf(rates, rate)
    IN  IF currentIndex + 1 < Len(rates) THEN rates[currentIndex + 2] ELSE rate

\* rates[(currentIndex + 1) % rates.length]
NextRate(rate) ==
    LET currentIndex == IndexOf(rates, rate)
    IN  rates[((currentIndex + 1) % Len(rates)) + 1]

\* the last (up to) n elements of s followed by x
Remember(s, x, n) ==
    LET t == Append(s, x) IN SubSeq(t, Max(1, Len(t) - n + 1), Len(t))

\* changeSpeed: the ref takes the next rate, and so does the element when bound
ChangeSpeed ==
    /\ playbackRate' = NextRate(playbackRate)
    /\ el' = IF audioRef THEN [el EXCEPT !.playbackRate = NextRate(playbackRate)] ELSE el
    /\ rateHistory' = Remember(rateHistory, playbackRate, Len(rates))
    /\ UNCHANGED nonSpeedVars

----------------------------------------------------------------------------
(* MinutesView.vue, project workspace: chat *)

NoSession == 0

\* the assistant message sendChatMessage creates
NewAssistantMsg == [content |-> <<>>, thoughts |-> <<>>, actions |-> <<>>, isStreaming |-> TRUE]

\* an entry of chatMessages: a user message, or the assistantMsg object of a call
UserMessage(query) == [role |-> "user", content |-> query, call |-> 0]
AssistantMessage(i) == [role |-> "assistant", content |-> <<>>, call |-> i]

\* currentSessionId.value = data.id
SessionIdOf(v) == IF v.k = "num" THEN v.n ELSE NoSession

\* faulty variant: a 'session_id' event always replaces the session identifier
ApplyChatEventOverwriting(st, event, data) ==
    CASE event = <<"thought">> ->
            [st EXCEPT !.msg.thoughts = Append(@, Member(data, "content"))]
      [] event = <<"action">> ->
            [st EXCEPT !.msg.actions =
                Append(@, [tool |-> Member(data, "tool"), query |-> Member(data, "query")])]
      [] event = <<"answer">> ->
            [st EXCEPT !.msg.content = @ \o StringOf(Member(data, "content"))]
      [] event = <<"session_id">> ->
            [st EXCEPT !.sessionId = SessionIdOf(Member(data, "id")),
                       !.refreshes = @ + 1]
      [] event = <<"error">> ->
            [st EXCEPT !.msg.content =
                @ \o <<"\n", "\n", "*Error: ">> \o StringOf(Member(data, "content")) \o <<"*">>]
      [] OTHER -> st

\* the handling of one parsed event; st holds assistantMsg, currentSessionId and
\* the fetchChatSessions() calls made
ApplyChatEvent(st, event, data) ==
    CASE event = <<"thought">> ->
            [st EXCEPT !.msg.thoughts = Append(@, Member(data, "content"))]
      [] event = <<"action">> ->
            [st EXCEPT !.msg.actions =
                Append(@, [tool |-> Member(data, "tool"), query |-> Member(data, "query")])]
      [] event = <<"answer">> ->
            [st EXCEPT !.msg.content = @ \o StringOf(Member(data, "content"))]
      [] event = <<"session_id">> ->
            [st EXCEPT !.sessionId = IF @ = NoSession THEN SessionIdOf(Member(data, "id")) ELSE @,
                       !.refreshes = @ + 1]
      [] event = <<"error">> ->
            [st EXCEPT !.msg.content =
                @ \o <<"\n", "\n", "*Error: ">> \o StringOf(Member(data, "content")) \o <<"*">>]
      [] OTHER -> st

\* the body of `for (const line of lines)`
ApplyChatLine(st, line) ==
    IF StartsWith(line, <<"event:">>)
    THEN LET lineParts == SplitText(line, <<"\n">>)
             eventLine == lineParts[1]
             dataLine == JoinText(Tail(lineParts), <<"\n">>)
         IN  IF eventLine # <<>> /\ dataLine # <<>>
             THEN LET event == Trim(ReplaceFirst(eventLine, <<"event:", " ">>, <<>>))
                      dataStr == ReplaceFirst(dataLine, <<"data:", " ">>, <<>>)
                      data == JSONParse(dataStr)
                  IN  IF data.ok THEN ApplyChatEvent(st, event, data.val) ELSE st
             ELSE st
    ELSE st

\* faulty variant: the loop is left at an 'error' event and at a data line that
\* cannot be parsed
RECURSIVE ApplyChatLinesAborting(_, _)
ApplyChatLinesAborting(st, lines) ==
    IF lines = <<>> THEN st
    ELSE LET lineParts == SplitText(Head(lines), <<"\n">>)
             dataStr == ReplaceFirst(JoinText(Tail(lineParts), <<"\n">>), <<"data:", " ">>, <<>>)
             stops == /\ StartsWith(Head(lines), <<"event:">>)
                      /\ \/ lineParts[1] = <<"event:", " ", "error">>
                         \/ ~JSONParse(dataStr).ok
         IN  IF stops THEN ApplyChatLine(st, Head(lines))
             ELSE ApplyChatLinesAborting(ApplyChatLine(st, Head(lines)), Tail(lines))

RECURSIVE ApplyChatLines(_, _)
ApplyChatLines(st, lines) ==
    IF lines = <<>> THEN st
    ELSE ApplyChatLines(ApplyChatLine(st, Head(lines)), Tail(lines))

\* one turn of the read loop on the decoded chunk: chunk.split('\n\n'), then
\* every line
ApplyChatChunk(st, chunk) == ApplyChatLines(st, SplitText(chunk, <<"\n", "\n">>))

\* what the user types into the chat box
ChatInputs == { <<"h", "i">> }

\* the id the back end gives to the session created for invocation i: every
\* new session has an id of its own
FreshSessionId(i) == i

\* POST /projects/{id}/chat/sessions, for invocation i: the new session, or a
\* failure (status 0)
SessionResponses(i) == {[status |-> 200, id |-> FreshSessionId(i)], [status |-> 0, id |-> 0]}

\* GET /projects/{id}/chat/sessions: the list of sessions, or a failure
SessionListResponses == {[status |-> 200, list |-> <<2, 1>>], [status |-> 0, list |-> <<>>]}

\* the events of the chat stream
AnswerEvent(t) == Event("answer", JObject(<< <<<<"content">>, JString(t)>> >>))
ThoughtEvent(t) == Event("thought", JObject(<< <<<<"content">>, JString(t)>> >>))
ErrorEvent(t) == Event("error", JObject(<< <<<<"content">>, JString(t)>> >>))
SessionIdEvent(n) == Event("session_id", JObject(<< <<<<"id">>, JNumber(n)>> >>))
ActionEvent(tool, query) ==
    Event("action", JObject(<< <<<<"tool">>, JString(tool)>>, <<<<"query">>, JString(query)>> >>))
\* an 'answer' event whose data line is cut short
MalformedAnswerEvent == [event |-> "answer", value |-> JUndefined, data |-> <<"{", "\"", "content">>]

\* streams of the chat: one answer; a whole turn of the agent with an error in
\* it; the id of a session the back end created; an event that cannot be parsed
ChatStreams ==
    { <<AnswerEvent(<<"h", "e", "l", "l", "o">>)>>,
      <<ThoughtEvent(<<"t">>), ActionEvent(<<"s">>, <<"q">>), AnswerEvent(<<"a">>),
        ErrorEvent(<<"x">>), AnswerEvent(<<"b">>)>>,
      <<SessionIdEvent(7), AnswerEvent(<<"a">>)>>,
      <<MalformedAnswerEvent, ThoughtEvent(<<"t">>), AnswerEvent(<<"c">>)>> }

\* a short stream: one answer
BriefStreams == { <<AnswerEvent(<<"a">>)>> }

\* POST /projects/{id}/chat: a stream of events, a response without a body, a
\* response that is not ok, or no response
ChatResponses(streams) ==
    {[kind |-> "stream", events |-> evs] : evs \in streams}
      \cup {[kind |-> k, events |-> <<>>] : k \in {"nobody", "notok", "failed"}}

\* an invocation of sendChatMessage that waits for createNewSession
WaitingCall ==
    [pc |-> "session", query |-> <<>>, session |-> NoSession, msg |-> NewAssistantMsg,
     events |-> <<>>, rest |-> <<>>]

\* sendChatMessage from `const userQuery` to the fetch, for invocation i
BeginChat(i, calls, messages, sessionId) ==
    /\ chatMessages' = messages \o <<UserMessage(Trim(chatInput)), AssistantMessage(i)>>
    /\ chatInput' = <<>>
    /\ isChatting' = TRUE
    /\ chatCalls' = [calls EXCEPT ![i] = [@ EXCEPT !.pc = "fetch",
                                                  !.query = Trim(chatInput),
                                                  !.session = sessionId]]

\* sendChatMessage, catch (when failed) and finally, for invocation i; its
\* locals are gone when it returns, assistantMsg stays
EndChat(i, calls, failed) ==
    /\ isChatting' = FALSE
    /\ chatCalls' = [calls EXCEPT ![i] =
          [@ EXCEPT !.pc = "done",
                    !.query = <<>>,
                    !.session = NoSession,
                    !.events = <<>>,
                    !.rest = <<>>,
                    !.msg.isStreaming = FALSE,
                    !.msg.content = IF failed
                                    THEN @ \o <<"\n", "\n", "*Failed to get response.*">>
                                    ELSE @]]

\* the user types
TypeChatInput(t) ==
    /\ route = "project-detail"
    /\ projectView = "mounted"
    /\ chatInput # t
    /\ chatInput' = t
    /\ UNCHANGED <<currentSessionId, isChatting, chatMessages, chatSessions, chatCalls, chatNet>>
    /\ UNCHANGED nonChatVars

\* sendChatMessage goes on past `if (!chatInput.value.trim() || isChatting.value) return`
ChatGuard == Trim(chatInput) # <<>> /\ ~isChatting

\* sendChatMessage, up to its first await
SendChatMessage ==
    /\ route = "project-detail"
    /\ projectView = "mounted"
    /\ Len(chatCalls) < MaxChatCalls
    /\ ChatGuard
    /\ LET i == Len(chatCalls) + 1
       IN  IF currentSessionId = NoSession
           THEN /\ chatCalls' = Append(chatCalls, WaitingCall)
                /\ UNCHANGED <<chatInput, isChatting, chatMessages>>
           ELSE BeginChat(i, Append(chatCalls, WaitingCall), chatMessages, currentSessionId)
    /\ UNCHANGED <<currentSessionId, chatSessions, chatNet>>
    /\ UNCHANGED nonChatVars

\* createNewSession from its response on, then sendChatMessage up to the fetch
ChatSessionResponse(i, r) ==
    /\ i \in DOMAIN chatCalls
    /\ chatCalls[i].pc = "session"
    /\ IF r.status = 200
       THEN /\ chatSessions' = <<r.id>> \o chatSessions
            /\ currentSessionId' = r.id
            /\ BeginChat(i, chatCalls, <<>>, r.id)
       ELSE /\ UNCHANGED <<chatSessions, currentSessionId>>
            /\ BeginChat(i, chatCalls, chatMessages, currentSessionId)
    /\ UNCHANGED chatNet
    /\ UNCHANGED nonChatVars

\* sendChatMessage from the response of fetch on, up to the first read
ChatFetchResponse(i, r) ==
    /\ i \in DOMAIN chatCalls
    /\ chatCalls[i].pc = "fetch"
    /\ IF r.kind = "stream"
       THEN /\ chatCalls' = [chatCalls EXCEPT ![i] = [@ EXCEPT !.pc = "read",
                                                               !.events = r.events,
                                                               !.rest = Encode(Wire(r.events))]]
            /\ UNCHANGED isChatting
       ELSE EndChat(i, chatCalls, TRUE)
    /\ UNCHANGED <<chatInput, currentSessionId, chatMessages, chatSessions, chatNet>>
    /\ UNCHANGED nonChatVars

\* one turn of the read loop: the next n bytes of the stream arrive as a chunk
ChatRead(i, n) ==
    /\ i \in DOMAIN chatCalls
    /\ chatCalls[i].pc = "read"
    /\ n \in 1..Len(chatCalls[i].rest)
    /\ \E after \in {ApplyChatChunk([msg |-> chatCalls[i].msg, sessionId |-> currentSessionId,
                                      refreshes |-> 0],
                                     Decode(SubSeq(chatCalls[i].rest, 1, n)))} :
          /\ BagCardinality(chatNet) + after.refreshes <= MaxSessionFetches
          /\ chatCalls' = [chatCalls EXCEPT ![i] =
                 [@ EXCEPT !.msg = after.msg,
                           !.rest = SubSeq(@, n + 1, Len(@))]]
          /\ currentSessionId' = after.sessionId
          /\ chatNet' = IF after.refreshes = 0 THEN chatNet
                        ELSE chatNet (+) [m \in {Request("getSessions")} |-> after.refreshes]
    /\ UNCHANGED <<chatInput, isChatting, chatMessages, chatSessions>>
    /\ UNCHANGED nonChatVars

\* the read that reports the end of the stream: fetchChatSessions(), then finally
ChatReadDone(i) ==
    /\ i \in DOMAIN chatCalls
    /\ chatCalls[i].pc = "read"
    /\ chatCalls[i].rest = <<>>
    /\ BagCardinality(chatNet) < MaxSessionFetches
    /\ chatNet' = Send(chatNet, Request("getSessions"))
    /\ EndChat(i, chatCalls, FALSE)
    /\ UNCHANGED <<chatInput, currentSessionId, chatMessages, chatSessions>>
    /\ UNCHANGED nonChatVars

\* a read that throws: catch, then finally
ChatReadError(i) ==
    /\ i \in DOMAIN chatCalls
    /\ chatCalls[i].pc = "read"
    /\ EndChat(i, chatCalls, TRUE)
    /\ UNCHANGED <<chatInput, currentSessionId, chatMessages, chatSessions, chatNet>>
    /\ UNCHANGED nonChatVars

\* fetchChatSessions from its response on
FetchChatSessionsResponse(r) ==
    /\ BagIn(Request("getSessions"), chatNet)
    /\ chatNet' = Take(chatNet, Request("getSessions"))
    /\ chatSessions' = IF r.status = 200 THEN r.list ELSE chatSessions
    /\ UNCHANGED <<chatInput, currentSessionId, isChatting, chatMessages, chatCalls>>
    /\ UNCHANGED nonChatVars

----------------------------------------------------------------------------
(* MinutesView.vue, minutes page: the persisted minutes and their generation *)

\* the minutes the back end holds before a generation
PersistedContent == <<"o", "l", "d">>

\* GET /recordings/{id}/minutes: minutes with a content (possibly empty), 404,
\* or a failure without a response (status 0)
MinutesResponses ==
    {[status |-> 200, content |-> c] : c \in {PersistedContent, <<>>}}
      \cup {[status |-> st, content |-> <<>>] : st \in {404, 0}}

\* GET /recordings/{id}, as the minutes page uses it: found or not
MinutesRecordingResponses == {[status |-> 200], [status |-> 0]}

\* the chunks of a generation stream, as bytes
MinuteStreams ==
    { <<>>, << <<"a">>, <<"b">> >>, << <<LeadByte>>, <<ContinuationByte>> >> }

\* GET /recordings/{id}/minutes/stream: a stream of chunks, a response without a
\* body, a response that is not ok, or no response
StreamResponses ==
    {[kind |-> "stream", chunks |-> c] : c \in MinuteStreams}
      \cup {[kind |-> k, chunks |-> <<>>] : k \in {"nobody", "notok", "failed"}}

\* a fetchMinutes call in flight and who awaits it: "mount" (onMounted), "button"
\* (Save Draft), "save" (saveMinutes) or "stream" with the invocation of
\* startStreaming
MinutesRequest(by, call) == [by |-> by, call |-> call]

\* md.render is given streamContent || minutes?.content || ''
RenderedSource ==
    IF streamContent # <<>> THEN streamContent
    ELSE IF minutes # Null /\ minutes.content # <<>> THEN minutes.content
    ELSE <<>>

\* startStreaming up to its fetch: the flags are set, the accumulator is emptied
BeginStreaming ==
    /\ loading' = TRUE
    /\ isGenerating' = TRUE
    /\ streamContent' = <<>>
    /\ streamCalls' = Append(streamCalls, [pc |-> "fetch", rest |-> <<>>, got |-> <<>>])

\* faulty variant: the flags are cleared on the success path only
EndStreamingOnSuccess(i, failed) ==
    /\ streamCalls' = [streamCalls EXCEPT ![i] = [pc |-> "done", rest |-> <<>>, got |-> <<>>]]
    /\ elMessage' = IF failed THEN "Generation failed" ELSE elMessage
    /\ loading' = IF failed THEN loading ELSE FALSE
    /\ isGenerating' = IF failed THEN isGenerating ELSE FALSE

\* startStreaming, catch (when failed) and finally, for invocation i; its locals
\* are gone when it returns
EndStreaming(i, failed) ==
    /\ streamCalls' = [streamCalls EXCEPT ![i] = [pc |-> "done", rest |-> <<>>, got |-> <<>>]]
    /\ elMessage' = IF failed THEN "Generation failed" ELSE elMessage
    /\ loading' = FALSE
    /\ isGenerating' = FALSE

\* onMounted up to the await of fetchRecording
OnMountedMinutes ==
    /\ route = "minutes"
    /\ minutesView = "setup"
    /\ minutesView' = "recording"
    /\ UNCHANGED <<minutesRecording, minutes, loading, isGenerating, streamContent,
                   streamCalls, minutesNet, elMessage>>
    /\ UNCHANGED nonMinutesVars

\* fetchRecording from its response on, then onMounted up to the await of fetchMinutes
MinutesRecordingResponse(r) ==
    /\ minutesView = "recording"
    /\ minutesView' = "minutes"
    /\ minutesRecording' = IF r.status = 200 THEN [media_url |-> ""] ELSE minutesRecording
    /\ minutesNet' = Send(minutesNet, MinutesRequest("mount", 0))
    /\ UNCHANGED <<minutes, loading, isGenerating, streamContent, streamCalls, elMessage>>
    /\ UNCHANGED nonMinutesVars

\* the button "Save Draft": fetchMinutes
SaveDraftClick ==
    /\ route = "minutes"
    /\ minutesView # "setup"
    /\ CopiesIn(MinutesRequest("button", 0), minutesNet) < MaxDraftFetches
    /\ minutesNet' = Send(minutesNet, MinutesRequest("button", 0))
    /\ UNCHANGED <<minutesView, minutesRecording, minutes, loading, isGenerating,
                   streamContent, streamCalls, elMessage>>
    /\ UNCHANGED nonMinutesVars

\* the button "AI Regenerate" (rendered while isGenerating is false): startStreaming
RegenerateClick ==
    /\ route = "minutes"
    /\ minutesView # "setup"
    /\ ~isGenerating
    /\ Len(streamCalls) < MaxStreamCalls
    /\ BeginStreaming
    /\ UNCHANGED <<minutesView, minutesRecording, minutes, minutesNet, elMessage>>
    /\ UNCHANGED nonMinutesVars

\* fetchMinutes from its response on, then what its caller does next: onMounted
\* starts the generation when there are no minutes, startStreaming ends
MinutesResponse(req, r) ==
    /\ BagIn(req, minutesNet)
    /\ req.by # "save"
    /\ minutesNet' = Take(minutesNet, req)
    /\ minutes' = IF r.status = 200 THEN [content |-> r.content] ELSE Null
    /\ LET content == IF r.status = 200 /\ r.content # <<>> THEN r.content ELSE streamContent
       IN  CASE req.by = "mount" ->
                  /\ minutesView' = "mounted"
                  /\ elMessage' = elMessage
                  /\ IF r.status # 200
                     THEN /\ Len(streamCalls) < MaxStreamCalls
                          /\ BeginStreaming
                     ELSE /\ streamContent' = content
                          /\ UNCHANGED <<loading, isGenerating, streamCalls>>
             [] req.by = "stream" ->
                  /\ streamContent' = content
                  /\ EndStreaming(req.call, FALSE)
                  /\ UNCHANGED minutesView
             [] OTHER ->
                  /\ streamContent' = content
                  /\ UNCHANGED <<minutesView, loading, isGenerating, streamCalls, elMessage>>
    /\ UNCHANGED minutesRecording
    /\ UNCHANGED nonMinutesVars

\* startStreaming from the response of fetch on, up to the first read
StreamResponse(i, r) ==
    /\ i \in DOMAIN streamCalls
    /\ streamCalls[i].pc = "fetch"
    /\ IF r.kind = "stream"
       THEN /\ streamCalls' = [streamCalls EXCEPT ![i] = [@ EXCEPT !.pc = "read",
                                                                   !.rest = r.chunks]]
            /\ UNCHANGED <<loading, isGenerating, elMessage>>
       ELSE EndStreaming(i, TRUE)
    /\ UNCHANGED <<minutesView, minutesRecording, minutes, streamContent, minutesNet>>
    /\ UNCHANGED nonMinutesVars

\* one turn of the read loop: streamContent.value += decoder.decode(value)
StreamRead(i) ==
    /\ i \in DOMAIN streamCalls
    /\ streamCalls[i].pc = "read"
    /\ streamCalls[i].rest # <<>>
    /\ LET text == Decode(Head(streamCalls[i].rest))
       IN  /\ streamContent' = streamContent \o text
           /\ streamCalls' = [streamCalls EXCEPT ![i] =
                  [@ EXCEPT !.rest = Tail(@), !.got = @ \o text]]
    /\ UNCHANGED <<minutesView, minutesRecording, minutes, loading, isGenerating,
                   minutesNet, elMessage>>
    /\ UNCHANGED nonMinutesVars

\* the read that reports the end of the stream: await fetchMinutes()
StreamReadDone(i) ==
    /\ i \in DOMAIN streamCalls
    /\ streamCalls[i].pc = "read"
    /\ streamCalls[i].rest = <<>>
    /\ streamCalls' = [streamCalls EXCEPT ![i] = [@ EXCEPT !.pc = "refresh"]]
    /\ minutesNet' = Send(minutesNet, MinutesRequest("stream", i))
    /\ UNCHANGED <<minutesView, minutesRecording, minutes, loading, isGenerating,
                   streamContent, elMessage>>
    /\ UNCHANGED nonMinutesVars

\* a read that throws: catch, then finally
StreamReadError(i) ==
    /\ i \in DOMAIN streamCalls
    /\ streamCalls[i].pc = "read"
    /\ EndStreaming(i, TRUE)
    /\ UNCHANGED <<minutesView, minutesRecording, minutes, streamContent, minutesNet>>
    /\ UNCHANGED nonMinutesVars

----------------------------------------------------------------------------
(* MinutesView.vue, project workspace: knowledge base *)

\* a notification of ElMessage: its type and the part of its text that varies
Notice(type, detail) == [type |-> type, detail |-> detail]
NoNotice == Notice("none", <<>>)

\* the content of a knowledge base; one section stands for the five
KBContent(t) == JObject(<< <<<<"prd">>, JString(t)>> >>)

\* the structure confirmGenerate sets up when there is no knowledge base
BlankKnowledgeBase == [id |-> 0, content |-> KBContent(<<>>)]

\* the knowledge base the back end holds before a generation
StoredKnowledgeBase == [id |-> 1, content |-> KBContent(<<"o">>)]

\* GET /recordings/project/{id}: the minutes ids of the recordings, or a failure
RecordingsResponses == {[status |-> 200, ids |-> {1}], [status |-> 0, ids |-> {}]}

\* GET /projects/{id}/documents: the ids of the documents, or a failure
DocumentsResponses == {[status |-> 200, ids |-> {2}], [status |-> 0, ids |-> {}]}

\* GET /projects/{id}/knowledge-base: the knowledge base, no data, or a failure
KnowledgeBaseResponses ==
    {[status |-> 200, data |-> StoredKnowledgeBase], [status |-> 200, data |-> Null],
     [status |-> 0, data |-> Null]}

\* the events of the generation stream
StatusEvent(t) == Event("status", JObject(<< <<<<"message">>, JString(t)>> >>))
DoneEvent(t) == Event("done", JObject(<< <<<<"content">>, KBContent(t)>> >>))
KBErrorEvent(t) == Event("error", JObject(<< <<<<"message">>, JString(t)>> >>))
\* a 'done' event whose data line is cut short
MalformedDoneEvent == [event |-> "done", value |-> JUndefined, data |-> <<"{", "\"", "content">>]

\* the text of a generation stream; when the stream is not terminated the blank
\* line after its last block is missing
KBWire(evs, terminated) ==
    LET text == Wire(evs)
    IN  IF terminated \/ text = <<>> THEN text ELSE SubSeq(text, 1, Len(text) - 2)

\* streams of a generation: progress then done; progress only; an error and a
\* later done; a done that cannot be parsed; a done without its blank line
KBStreams ==
    { [events |-> <<StatusEvent(<<"U+00E9">>), DoneEvent(<<"n">>)>>, terminated |-> TRUE],
      [events |-> <<StatusEvent(<<"m">>)>>, terminated |-> TRUE],
      [events |-> <<KBErrorEvent(<<"x">>), DoneEvent(<<"n">>)>>, terminated |-> TRUE],
      [events |-> <<MalformedDoneEvent>>, terminated |-> TRUE],
      [events |-> <<DoneEvent(<<"n">>)>>, terminated |-> FALSE] }

\* POST /projects/{id}/knowledge-base/generate/stream: a stream of events, a
\* response without a body, a response that is not ok, or no response
KBResponses ==
    {[kind |-> "stream", stream |-> s] : s \in KBStreams}
      \cup {[kind |-> k, stream |-> [events |-> <<>>, terminated |-> TRUE]] :
                k \in {"nobody", "notok", "failed"}}

\* the network delivers a stream whole or in chunks of ChunkSize bytes (the last
\* one shorter); with this size a chunk ends inside a block, between a lead byte
\* and its continuation byte, and between the two line feeds of a blank line
ChunkSize == 13
ChunkSizes(rest) == {ChunkSize, Len(rest)} \cap (1..Len(rest))

\* the handling of one event with a non-empty data string; st holds
\* researchStatusMessage, knowledgeBase, isGeneratingKB, showResearchModal and
\* the notification
ApplyKBEvent(st, event, dataStr) ==
    LET data == JSONParse(dataStr)
    IN  CASE event = <<"status">> ->
                IF data.ok THEN [st EXCEPT !.status = Member(data.val, "message")] ELSE st
          [] event = <<"done">> ->
                IF data.ok
                THEN [st EXCEPT !.kb = IF @ # Null /\ Truthy(Member(data.val, "content"))
                                       THEN [@ EXCEPT !.content = Member(data.val, "content")]
                                       ELSE @,
                                !.generating = FALSE,
                                !.research = FALSE,
                                !.message = Notice("success", <<>>)]
                ELSE st
          [] event = <<"error">> ->
                [st EXCEPT !.message = Notice("error", IF data.ok
                                                       THEN StringOf(Member(data.val, "message"))
                                                       ELSE dataStr),
                           !.generating = FALSE,
                           !.research = FALSE]
          [] OTHER -> st

\* the body of `for (const line of lines)`
ApplyKBLine(st, line) ==
    IF StartsWith(line, <<"event:", " ">>)
    THEN LET lineParts == SplitText(line, <<"\n">>)
             event == Trim(ReplaceFirst(lineParts[1], <<"event:", " ">>, <<>>))
             dataStr == Trim(ReplaceFirst(JoinText(Tail(lineParts), <<"\n">>),
                                          <<"data:", " ">>, <<>>))
         IN  IF dataStr # <<>> THEN ApplyKBEvent(st, event, dataStr) ELSE st
    ELSE st

RECURSIVE ApplyKBLines(_, _)
ApplyKBLines(st, lines) ==
    IF lines = <<>> THEN st
    ELSE ApplyKBLines(ApplyKBLine(st, Head(lines)), Tail(lines))

\* confirmGenerate ends, for invocation i; its locals are gone when it returns
EndGenerate(i) ==
    kbCalls' = [kbCalls EXCEPT ![i] =
                   [pc |-> "done", events |-> <<>>, terminated |-> TRUE, buffer |-> <<>>, pending |-> FALSE,
                    rest |-> <<>>]]

\* confirmGenerate, its catch
CatchGenerate ==
    /\ kbMessage' = Notice("error", <<>>)
    /\ isGeneratingKB' = FALSE
    /\ showResearchModal' = FALSE

\* onMounted of the workspace: the fetches of the recordings, the documents, the
\* knowledge base and the chat sessions are sent (the project itself is not held)
OnMountedProject ==
    /\ route = "project-detail"
    /\ projectView = "setup"
    /\ projectView' = "mounted"
    /\ kbNet' = kbNet (+) SetToBag({Request("getRecordings"), Request("getDocuments"),
                                    Request("getKnowledgeBase")})
    /\ chatNet' = Send(chatNet, Request("getSessions"))
    /\ UNCHANGED <<availableMinutes, documents, knowledgeBase, isGeneratingKB,
                   showSelectMinutesModal, showResearchModal, researchStatusMessage,
                   selectedMinutesIds, selectedDocumentIds, kbCalls, kbMessage>>
    /\ UNCHANGED <<chatInput, currentSessionId, isChatting, chatMessages, chatSessions, chatCalls>>
    /\ UNCHANGED nonProjectVars

\* fetchRecordings from its response on
RecordingsResponse(r) ==
    /\ BagIn(Request("getRecordings"), kbNet)
    /\ kbNet' = Take(kbNet, Request("getRecordings"))
    /\ availableMinutes' = IF r.status = 200 THEN r.ids ELSE availableMinutes
    /\ UNCHANGED <<projectView, documents, knowledgeBase, isGeneratingKB,
                   showSelectMinutesModal, showResearchModal, researchStatusMessage,
                   selectedMinutesIds, selectedDocumentIds, kbCalls, kbMessage>>
    /\ UNCHANGED nonKBVars

\* fetchDocuments from its response on
DocumentsResponse(r) ==
    /\ BagIn(Request("getDocuments"), kbNet)
    /\ kbNet' = Take(kbNet, Request("getDocuments"))
    /\ documents' = IF r.status = 200 THEN r.ids ELSE documents
    /\ UNCHANGED <<projectView, availableMinutes, knowledgeBase, isGeneratingKB,
                   showSelectMinutesModal, showResearchModal, researchStatusMessage,
                   selectedMinutesIds, selectedDocumentIds, kbCalls, kbMessage>>
    /\ UNCHANGED nonKBVars

\* fetchKnowledgeBase from its response on
KnowledgeBaseResponse(r) ==
    /\ BagIn(Request("getKnowledgeBase"), kbNet)
    /\ kbNet' = Take(kbNet, Request("getKnowledgeBase"))
    /\ knowledgeBase' = IF r.status = 200 /\ r.data # Null /\ Truthy(r.data.content)
                        THEN r.data
                        ELSE knowledgeBase
    /\ UNCHANGED <<projectView, availableMinutes, documents, isGeneratingKB,
                   showSelectMinutesModal, showResearchModal, researchStatusMessage,
                   selectedMinutesIds, selectedDocumentIds, kbCalls, kbMessage>>
    /\ UNCHANGED nonKBVars

\* a dialog is open: the page under it takes no click
DialogOpen == showSelectMinutesModal \/ showResearchModal

\* openGenerateModal: everything is selected
OpenGenerateModal ==
    /\ route = "project-detail"
    /\ projectView = "mounted"
    /\ ~DialogOpen
    /\ selectedMinutesIds' = availableMinutes
    /\ selectedDocumentIds' = documents
    /\ showSelectMinutesModal' = TRUE
    /\ UNCHANGED <<projectView, availableMinutes, documents, knowledgeBase, isGeneratingKB,
                   showResearchModal, researchStatusMessage, kbCalls, kbNet, kbMessage>>
    /\ UNCHANGED nonKBVars

\* a checkbox of the selection dialog is clicked
ToggleSelection(id) ==
    /\ showSelectMinutesModal
    /\ ~showResearchModal
    /\ id \in availableMinutes \cup documents
    /\ selectedMinutesIds' = IF id \in availableMinutes
                             THEN (selectedMinutesIds \ {id}) \cup ({id} \ selectedMinutesIds)
                             ELSE selectedMinutesIds
    /\ selectedDocumentIds' = IF id \in documents
                              THEN (selectedDocumentIds \ {id}) \cup ({id} \ selectedDocumentIds)
                              ELSE selectedDocumentIds
    /\ UNCHANGED <<projectView, availableMinutes, documents, knowledgeBase, isGeneratingKB,
                   showSelectMinutesModal, showResearchModal, researchStatusMessage,
                   kbCalls, kbNet, kbMessage>>
    /\ UNCHANGED nonKBVars

\* the cancel button of the selection dialog
CancelSelection ==
    /\ showSelectMinutesModal
    /\ ~showResearchModal
    /\ showSelectMinutesModal' = FALSE
    /\ UNCHANGED <<projectView, availableMinutes, documents, knowledgeBase, isGeneratingKB,
                   showResearchModal, researchStatusMessage, selectedMinutesIds,
                   selectedDocumentIds, kbCalls, kbNet, kbMessage>>
    /\ UNCHANGED nonKBVars

\* the confirm button of the selection dialog (disabled while there is nothing
\* to select): confirmGenerate up to its fetch
ConfirmGenerate ==
    /\ showSelectMinutesModal
    /\ ~showResearchModal
    /\ availableMinutes \cup documents # {}
    /\ IF selectedMinutesIds = {} /\ selectedDocumentIds = {}
       THEN /\ kbMessage' = Notice("warning", <<>>)
            /\ UNCHANGED <<knowledgeBase, isGeneratingKB, showSelectMinutesModal,
                           showResearchModal, researchStatusMessage, kbCalls>>
       ELSE /\ Len(kbCalls) < MaxKBCalls
            /\ isGeneratingKB' = TRUE
            /\ showSelectMinutesModal' = FALSE
            /\ showResearchModal' = TRUE
            /\ researchStatusMessage' = JString(<<"Starting Deep Research Agent...">>)
            /\ knowledgeBase' = IF knowledgeBase = Null THEN BlankKnowledgeBase ELSE knowledgeBase
            /\ kbCalls' = Append(kbCalls, [pc |-> "fetch", events |-> <<>>, terminated |-> TRUE,
                                           buffer |-> <<>>,
                                           pending |-> FALSE, rest |-> <<>>])
            /\ UNCHANGED kbMessage
    /\ UNCHANGED <<projectView, availableMinutes, documents, selectedMinutesIds,
                   selectedDocumentIds, kbNet>>
    /\ UNCHANGED nonKBVars

\* confirmGenerate from the response of fetch on, up to the first read
KBFetchResponse(i, r) ==
    /\ i \in DOMAIN kbCalls
    /\ kbCalls[i].pc = "fetch"
    /\ IF r.kind = "stream"
       THEN /\ kbCalls' = [kbCalls EXCEPT ![i] =
                   [@ EXCEPT !.pc = "read",
                             !.events = r.stream.events,
                             !.terminated = r.stream.terminated,
                             !.rest = Encode(KBWire(r.stream.events, r.stream.terminated))]]
            /\ UNCHANGED <<isGeneratingKB, showResearchModal, kbMessage>>
       ELSE /\ EndGenerate(i)
            /\ CatchGenerate
    /\ UNCHANGED <<projectView, availableMinutes, documents, knowledgeBase,
                   showSelectMinutesModal, researchStatusMessage, selectedMinutesIds,
                   selectedDocumentIds, kbNet>>
    /\ UNCHANGED nonKBVars

\* one turn of the read loop on chunk: the complete blocks of the buffer are
\* handled, what follows the last blank line is kept
KBTurn(call, chunk, st) ==
    LET decoded == DecodeStream(call.pending, chunk)
        lines == SplitText(call.buffer \o decoded.text, <<"\n", "\n">>)
    IN  [buffer |-> lines[Len(lines)],
         pending |-> decoded.pending,
         st |-> ApplyKBLines(st, SubSeq(lines, 1, Len(lines) - 1))]

\* one turn of the read loop: the next n bytes of the stream arrive as a chunk
KBRead(i, n) ==
    /\ i \in DOMAIN kbCalls
    /\ kbCalls[i].pc = "read"
    /\ n \in 1..Len(kbCalls[i].rest)
    /\ \E turn \in {KBTurn(kbCalls[i], SubSeq(kbCalls[i].rest, 1, n),
                           [status |-> researchStatusMessage, kb |-> knowledgeBase,
                            generating |-> isGeneratingKB, research |-> showResearchModal,
                            message |-> kbMessage])} :
          /\ kbCalls' = [kbCalls EXCEPT ![i] =
                 [@ EXCEPT !.buffer = turn.buffer,
                           !.pending = turn.pending,
                           !.rest = SubSeq(@, n + 1, Len(@))]]
          /\ researchStatusMessage' = turn.st.status
          /\ knowledgeBase' = turn.st.kb
          /\ isGeneratingKB' = turn.st.generating
          /\ showResearchModal' = turn.st.research
          /\ kbMessage' = turn.st.message
    /\ UNCHANGED <<projectView, availableMinutes, documents, showSelectMinutesModal,
                   selectedMinutesIds, selectedDocumentIds, kbNet>>
    /\ UNCHANGED nonKBVars

\* the read that reports the end of the stream: the loop is left and
\* confirmGenerate returns
KBReadDone(i) ==
    /\ i \in DOMAIN kbCalls
    /\ kbCalls[i].pc = "read"
    /\ kbCalls[i].rest = <<>>
    /\ EndGenerate(i)
    /\ UNCHANGED <<projectView, availableMinutes, documents, knowledgeBase, isGeneratingKB,
                   showSelectMinutesModal, showResearchModal, researchStatusMessage,
                   selectedMinutesIds, selectedDocumentIds, kbNet, kbMessage>>
    /\ UNCHANGED nonKBVars

\* a read that throws: catch
KBReadError(i) ==
    /\ i \in DOMAIN kbCalls
    /\ kbCalls[i].pc = "read"
    /\ EndGenerate(i)
    /\ CatchGenerate
    /\ UNCHANGED <<projectView, availableMinutes, documents, knowledgeBase,
                   showSelectMinutesModal, researchStatusMessage, selectedMinutesIds,
                   selectedDocumentIds, kbNet>>
    /\ UNCHANGED nonKBVars

----------------------------------------------------------------------------
(* TranscriptionView.vue: speaker statistics, highlighted segment, colors *)

\* Math.round of num / den for den > 0: the nearest integer, a half goes up
Round(num, den) == (2 * num + den) \div (2 * den)

\* faulty variant: the quotient is cut instead of rounded
RoundDown(num, den) == num \div den

\* Math.round((dur / totalDuration) * 100); 0 / 0 is NaN and Math.round(NaN) is NaN
Percentage(dur, totalDuration) ==
    IF totalDuration = 0 THEN NaN ELSE Round(100 * dur, totalDuration)

\* stats[seg.speaker_id] = (stats[seg.speaker_id] || 0) + dur, the keys in the
\* order they were first written
AddDuration(stats, seg) ==
    LET dur == seg.end - seg.start
    IN  IF \E i \in DOMAIN stats : stats[i].speaker = seg.speaker_id
        THEN [i \in DOMAIN stats |->
                IF stats[i].speaker = seg.speaker_id
                THEN [stats[i] EXCEPT !.dur = @ + dur]
                ELSE stats[i]]
        ELSE Append(stats, [speaker |-> seg.speaker_id, dur |-> dur])

\* the forEach of speakerStats over the first n segments
RECURSIVE Durations(_, _)
Durations(content, n) ==
    IF n = 0 THEN <<>> ELSE AddDuration(Durations(content, n - 1), content[n])

RECURSIVE TotalDuration(_, _)
TotalDuration(content, n) ==
    IF n = 0 THEN 0
    ELSE TotalDuration(content, n - 1) + (content[n].end - content[n].start)

\* faulty variant: the comparator a.percentage - b.percentage
PrecedesAscending(a, b) ==
    a.percentage # NaN /\ b.percentage # NaN /\ a.percentage - b.percentage < 0

\* the comparator (a, b) => b.percentage - a.percentage puts a before b when it
\* is negative; NaN is not negative
Precedes(a, b) ==
    a.percentage # NaN /\ b.percentage # NaN /\ b.percentage - a.percentage < 0

\* Array.prototype.sort (stable): x goes before the first entry it precedes
RECURSIVE InsertSorted(_, _)
InsertSorted(sorted, x) ==
    IF sorted = <<>> THEN <<x>>
    ELSE IF Precedes(x, Head(sorted)) THEN <<x>> \o sorted
    ELSE <<Head(sorted)>> \o InsertSorted(Tail(sorted), x)

RECURSIVE SortByPercentage(_, _)
SortByPercentage(entries, n) ==
    IF n = 0 THEN <<>> ELSE InsertSorted(SortByPercentage(entries, n - 1), entries[n])

\* computed speakerStats
SpeakerStats(tr) ==
    IF tr = Null THEN <<>>
    ELSE LET stats == Durations(tr.content, Len(tr.content))
             totalDuration == TotalDuration(tr.content, Len(tr.content))
             entries == [i \in DOMAIN stats |->
                           [speaker |-> stats[i].speaker,
                            percentage |-> Percentage(stats[i].dur, totalDuration)]]
         IN  SortByPercentage(entries, Len(entries))

\* faulty variant: the comparison with seg.end is strict
ContainsTimeStrict(seg, time) == time >= seg.start /\ time < seg.end

\* currentTime.value >= seg.start && currentTime.value <= seg.end
ContainsTime(seg, time) == time >= seg.start /\ time <= seg.end

\* Array.prototype.findIndex from position i on (indices from 0, -1 when none)
RECURSIVE FindSegment(_, _, _)
FindSegment(content, time, i) ==
    IF i > Len(content) THEN -1
    ELSE IF ContainsTime(content[i], time) THEN i - 1
    ELSE FindSegment(content, time, i + 1)

\* computed activeSegmentIndex
ActiveSegmentIndex(tr, time) ==
    IF tr = Null THEN -1 ELSE FindSegment(tr.content, time, 1)

\* String.prototype.charCodeAt for the characters of the labels
CharCode(c) ==
    IF \E i \in DOMAIN UpperCase : UpperCase[i] = c
    THEN 64 + (CHOOSE i \in DOMAIN UpperCase : UpperCase[i] = c)
    ELSE IF \E i \in DOMAIN LowerCase : LowerCase[i] = c
    THEN 96 + (CHOOSE i \in DOMAIN LowerCase : LowerCase[i] = c)
    ELSE 32

\* hash << 5 on 32-bit signed integers: the low 27 bits move up, bit 26
\* becomes the sign
ShiftLeft5(hash) ==
    LET low == hash % 134217728
    IN  IF low >= 67108864 THEN (low - 134217728) * 32 ELSE low * 32

\* the loop of generateColor over the first n characters
RECURSIVE LabelHash(_, _)
LabelHash(speakerId, n) ==
    IF n = 0 THEN 0
    ELSE LET hash == LabelHash(speakerId, n - 1)
         IN  CharCode(speakerId[n]) + (ShiftLeft5(hash) - hash)

\* generateColor: the index of the color in its list of ten
GenerateColor(speakerId) ==
    LET hash == LabelHash(speakerId, Len(speakerId))
    IN  (IF hash < 0 THEN -hash ELSE hash) % 10

\* getAvatarColor: the cache after the lookup of one label
CacheColor(colors, speakerId) ==
    IF speakerId \in DOMAIN colors THEN colors
    ELSE [l \in DOMAIN colors \cup {speakerId} |->
            IF l = speakerId THEN GenerateColor(speakerId) ELSE colors[l]]

\* getAvatarColor for the speakers of the first n entries of the speakers card
RECURSIVE CacheColors(_, _, _)
CacheColors(colors, stats, n) ==
    IF n = 0 THEN colors
    ELSE CacheColor(CacheColors(colors, stats, n - 1), stats[n].speaker)

\* queries of the search: none, a letter of the text in the other case, a
\* letter of a speaker label in the other case
Queries == { <<>>, <<"H">>, <<"b">> }

\* faulty variant: the filter compares without folding the case
FilteredTranscriptCaseSensitive(tr, query) ==
    IF tr = Null THEN <<>>
    ELSE IF query = <<>> THEN tr.content
    ELSE SelectSeq(tr.content,
                   LAMBDA seg : Includes(seg.text, query) \/ Includes(seg.speaker_id, query))

\* computed filteredTranscript
FilteredTranscript(tr, query) ==
    IF tr = Null THEN <<>>
    ELSE IF query = <<>> THEN tr.content
    ELSE SelectSeq(tr.content,
                   LAMBDA seg : \/ Includes(ToLowerCase(seg.text), ToLowerCase(query))
                                \/ Includes(ToLowerCase(seg.speaker_id), ToLowerCase(query)))

\* what a render shows and caches: the speakers card lists speakerStats and
\* looks up the color of each of its speakers; the list of segments (shown when
\* there is no error and a transcript) has one row per entry of
\* filteredTranscript, and the row whose index is activeSegmentIndex is
\* highlighted
Rendering ==
    [stats |-> SpeakerStats(transcript),
     active |-> ActiveSegmentIndex(transcript, currentTime),
     rows |-> IF errorState # EmptyText \/ transcript = Null THEN <<>>
              ELSE FilteredTranscript(transcript, searchQuery)]

\* the view shows its present state (Vue renders before the next event)
Flushed ==
    /\ shown = Rendering
    /\ \A i \in DOMAIN shown.stats : shown.stats[i].speaker \in DOMAIN speakerColors

\* the render that follows a change of the refs the template reads
Render ==
    /\ view = "mounted"
    /\ ~Flushed
    /\ shown' = Rendering
    /\ speakerColors' = CacheColors(speakerColors, Rendering.stats, Len(Rendering.stats))
    /\ UNCHANGED <<server, editingSpeaker, isEditingName, editedName, isEditingDate,
                   editedDate, editNet, viewMessage, isEditingMinutes,
                   editedMinutesContent>>
    /\ UNCHANGED <<watchVars, playerVars, speedVars, route, chatVars, minutesVars, kbVars,
                   panelVars>>

----------------------------------------------------------------------------
(* TranscriptionView.vue: inline editors (speaker label, title, date) *)

\* what the user types into the input of a speaker label
SpeakerNames == { <<"B">>, <<"C", " ">>, <<" ">> }

\* what the user types into the input of the title
RecordingNames == { <<"b">>, <<" ">>, <<"a", " ">> }

\* the instants the date picker offers
Dates == {1, 2}

\* new Date(created_at): the instant a spelling stands for
ParseDate(s) == s.instant

\* Date.prototype.toISOString
ToISOString(d) == DateString(d, "iso")

\* PUT /recordings/{id}/speakers, PUT /recordings/{id}: accepted (the back end
\* applies the change), refused (it does not), or applied with the response lost
UpdateResponses ==
    { [status |-> 200, applied |-> TRUE], [status |-> 500, applied |-> FALSE],
      [status |-> 0, applied |-> TRUE] }

\* faulty variant: every segment gets the new label
RelabelAll(content, originalId, newName) ==
    [i \in DOMAIN content |-> [content[i] EXCEPT !.speaker_id = newName]]

\* the forEach of saveSpeakerName: the segments of the old label get the new one
Relabel(content, originalId, newName) ==
    [i \in DOMAIN content |->
        IF content[i].speaker_id = originalId
        THEN [content[i] EXCEPT !.speaker_id = newName]
        ELSE content[i]]

\* saveSpeakerName, "Preserve color mapping for the new name"
InheritColor(colors, originalId, newName) ==
    IF newName \notin DOMAIN colors /\ originalId \in DOMAIN colors
    THEN [l \in DOMAIN colors \cup {newName} |->
            IF l = newName THEN colors[originalId] ELSE colors[l]]
    ELSE colors

\* the list of segments is rendered: no error panel and a transcript
ListShown == view = "mounted" /\ errorState = EmptyText /\ transcript # Null

\* startEditingSpeaker: a click on the label of a row that is not being edited
StartEditingSpeaker(speakerId) ==
    /\ ListShown
    /\ Flushed
    /\ editingSpeaker = Null
    /\ \E i \in DOMAIN transcript.content : transcript.content[i].speaker_id = speakerId
    /\ editingSpeaker' = [id |-> speakerId, name |-> speakerId]
    /\ UNCHANGED <<server, shown, speakerColors, isEditingName, editedName, isEditingDate,
                   editedDate, editNet, viewMessage, isEditingMinutes,
                   editedMinutesContent>>
    /\ UNCHANGED <<watchVars, playerVars, speedVars, route, chatVars, minutesVars, kbVars,
                   panelVars>>

\* v-model="editingSpeaker.name"
TypeSpeakerName(text) ==
    /\ ListShown
    /\ editingSpeaker # Null
    /\ \E i \in DOMAIN transcript.content :
          transcript.content[i].speaker_id = editingSpeaker.id
    /\ editingSpeaker' = [editingSpeaker EXCEPT !.name = text]
    /\ UNCHANGED <<server, shown, speakerColors, isEditingName, editedName, isEditingDate,
                   editedDate, editNet, viewMessage, isEditingMinutes,
                   editedMinutesContent>>
    /\ UNCHANGED <<watchVars, playerVars, speedVars, route, chatVars, minutesVars, kbVars,
                   panelVars>>

\* saveSpeakerName up to its await (Enter or loss of focus in the input, which
\* exists while a row of the list carries the edited label)
SaveSpeakerName ==
    /\ ListShown
    /\ editingSpeaker # Null
    /\ \E i \in DOMAIN transcript.content :
          transcript.content[i].speaker_id = editingSpeaker.id
    /\ LET originalId == editingSpeaker.id
           newName == Trim(editingSpeaker.name)
       IN  IF newName = <<>> \/ newName = originalId
           THEN /\ editingSpeaker' = Null
                /\ UNCHANGED <<transcript, speakerColors, editNet>>
           ELSE /\ BagCardinality(editNet) < MaxEditInflight
                /\ speakerColors' = InheritColor(speakerColors, originalId, newName)
                /\ transcript' = [transcript EXCEPT
                                    !.content = Relabel(@, originalId, newName)]
                /\ editingSpeaker' = Null
                /\ editNet' = Send(editNet, [kind |-> "putSpeakers",
                                             original_speaker_id |-> originalId,
                                             new_speaker_id |-> newName])
    /\ UNCHANGED <<server, shown, isEditingName, editedName, isEditingDate, editedDate,
                   viewMessage, isEditingMinutes, editedMinutesContent>>
    /\ UNCHANGED <<view, recording, errorState, pollInterval, statusInterval, activePoll,
                   activeStatus, timerSeq, net>>
    /\ UNCHANGED <<playerVars, speedVars, route, chatVars, minutesVars, kbVars,
                   panelVars>>

\* saveSpeakerName from the response on: the success message, or the catch
\* branch with its fetchTranscript()
SaveSpeakerResponse(req, r) ==
    /\ BagIn(req, editNet)
    /\ req.kind = "putSpeakers"
    /\ editNet' = Take(editNet, req)
    /\ server' = IF r.applied
                 THEN [server EXCEPT !.transcript.content =
                         Relabel(@, req.original_speaker_id, req.new_speaker_id)]
                 ELSE server
    /\ IF r.status = 200
       THEN /\ viewMessage' = "Renamed"
            /\ net' = net
       ELSE /\ InFlight("getTranscript") < MaxInflight
            /\ viewMessage' = "Failed to update speaker name"
            /\ net' = FetchTranscriptCall(net)
    /\ UNCHANGED <<shown, speakerColors, editingSpeaker, isEditingName, editedName,
                   isEditingDate, editedDate, isEditingMinutes, editedMinutesContent>>
    /\ UNCHANGED <<view, transcript, recording, errorState, pollInterval, statusInterval,
                   activePoll, activeStatus, timerSeq>>
    /\ UNCHANGED <<playerVars, speedVars, route, chatVars, minutesVars, kbVars,
                   panelVars>>

\* startEditingName: the pencil next to the title
StartEditingName ==
    /\ view = "mounted"
    /\ ~isEditingName
    /\ recording # Null
    /\ editedName' = recording.filename
    /\ isEditingName' = TRUE
    /\ UNCHANGED <<server, shown, speakerColors, editingSpeaker, isEditingDate, editedDate,
                   editNet, viewMessage, isEditingMinutes, editedMinutesContent>>
    /\ UNCHANGED <<watchVars, playerVars, speedVars, route, chatVars, minutesVars, kbVars,
                   panelVars>>

\* v-model="editedName"
TypeRecordingName(text) ==
    /\ view = "mounted"
    /\ isEditingName
    /\ editedName' = text
    /\ UNCHANGED <<server, shown, speakerColors, editingSpeaker, isEditingName,
                   isEditingDate, editedDate, editNet, viewMessage, isEditingMinutes,
                   editedMinutesContent>>
    /\ UNCHANGED <<watchVars, playerVars, speedVars, route, chatVars, minutesVars, kbVars,
                   panelVars>>

\* the update requests of the title in a bag of requests
NamePuts(bag) ==
    BagCardinality([q \in {x \in BagToSet(bag) : x.kind = "putName"} |-> bag[q]])

\* saveRecordingName up to its await (Enter or loss of focus in the input)
SaveRecordingName ==
    /\ view = "mounted"
    /\ isEditingName
    /\ IF recording = Null \/ Trim(editedName) = <<>>
       THEN isEditingName' = FALSE /\ editNet' = editNet
       ELSE IF Trim(editedName) = recording.filename
       THEN isEditingName' = FALSE /\ editNet' = editNet
       ELSE /\ NamePuts(editNet) < MaxNameInflight
            /\ BagCardinality(editNet) - NamePuts(editNet) < MaxEditInflight
            /\ editNet' = Send(editNet, [kind |-> "putName",
                                         filename |-> Trim(editedName)])
            /\ isEditingName' = isEditingName
    /\ UNCHANGED <<server, shown, speakerColors, editingSpeaker, editedName, isEditingDate,
                   editedDate, viewMessage, isEditingMinutes, editedMinutesContent>>
    /\ UNCHANGED <<watchVars, playerVars, speedVars, route, chatVars, minutesVars, kbVars,
                   panelVars>>

\* saveRecordingName from the response on; the assignment to recording.value
\* throws into the catch branch when the recording is null by then
SaveRecordingNameResponse(req, r) ==
    /\ BagIn(req, editNet)
    /\ req.kind = "putName"
    /\ editNet' = Take(editNet, req)
    /\ server' = IF r.applied THEN [server EXCEPT !.filename = req.filename] ELSE server
    /\ IF r.status = 200 /\ recording # Null
       THEN /\ recording' = [recording EXCEPT !.filename = Trim(editedName)]
            /\ isEditingName' = FALSE
            /\ viewMessage' = "Renamed successfully"
       ELSE /\ viewMessage' = "Failed to rename recording"
            /\ UNCHANGED <<recording, isEditingName>>
    /\ UNCHANGED <<shown, speakerColors, editingSpeaker, editedName, isEditingDate,
                   editedDate, isEditingMinutes, editedMinutesContent>>
    /\ UNCHANGED <<view, transcript, errorState, pollInterval, statusInterval, activePoll,
                   activeStatus, timerSeq, net>>
    /\ UNCHANGED <<playerVars, speedVars, route, chatVars, minutesVars, kbVars,
                   panelVars>>

\* startEditingDate: a click on the date
StartEditingDate ==
    /\ view = "mounted"
    /\ ~isEditingDate
    /\ recording # Null
    /\ editedDate' = ParseDate(recording.created_at)
    /\ isEditingDate' = TRUE
    /\ UNCHANGED <<server, shown, speakerColors, editingSpeaker, isEditingName, editedName,
                   editNet, viewMessage, isEditingMinutes, editedMinutesContent>>
    /\ UNCHANGED <<watchVars, playerVars, speedVars, route, chatVars, minutesVars, kbVars,
                   panelVars>>

\* @blur of the date picker
BlurDate ==
    /\ view = "mounted"
    /\ isEditingDate
    /\ isEditingDate' = FALSE
    /\ UNCHANGED <<server, shown, speakerColors, editingSpeaker, isEditingName, editedName,
                   editedDate, editNet, viewMessage, isEditingMinutes,
                   editedMinutesContent>>
    /\ UNCHANGED <<watchVars, playerVars, speedVars, route, chatVars, minutesVars, kbVars,
                   panelVars>>

\* the date picker: v-model takes the value picked (null when cleared) and
\* @change runs saveRecordingDate up to its await; the picker reports a change
\* only of a value that differs from the one it held
SaveRecordingDate(picked) ==
    /\ view = "mounted"
    /\ isEditingDate
    /\ picked # editedDate
    /\ editedDate' = picked
    /\ IF recording = Null \/ picked = NoDate
       THEN isEditingDate' = FALSE /\ editNet' = editNet
       ELSE /\ BagCardinality(editNet) < MaxEditInflight
            /\ editNet' = Send(editNet, [kind |-> "putDate",
                                         created_at |-> ToISOString(picked)])
            /\ isEditingDate' = isEditingDate
    /\ UNCHANGED <<server, shown, speakerColors, editingSpeaker, isEditingName, editedName,
                   viewMessage, isEditingMinutes, editedMinutesContent>>
    /\ UNCHANGED <<watchVars, playerVars, speedVars, route, chatVars, minutesVars, kbVars,
                   panelVars>>

\* saveRecordingDate from the response on; toISOString throws into the catch
\* branch when the date was cleared by then, as does the assignment when the
\* recording is null
SaveRecordingDateResponse(req, r) ==
    /\ BagIn(req, editNet)
    /\ req.kind = "putDate"
    /\ editNet' = Take(editNet, req)
    /\ server' = IF r.applied THEN [server EXCEPT !.created_at = req.created_at] ELSE server
    /\ IF r.status = 200 /\ recording # Null /\ editedDate # NoDate
       THEN /\ recording' = [recording EXCEPT !.created_at = ToISOString(editedDate)]
            /\ isEditingDate' = FALSE
            /\ viewMessage' = "Date updated successfully"
       ELSE /\ viewMessage' = "Failed to update date"
            /\ UNCHANGED <<recording, isEditingDate>>
    /\ UNCHANGED <<shown, speakerColors, editingSpeaker, isEditingName, editedName,
                   editedDate, isEditingMinutes, editedMinutesContent>>
    /\ UNCHANGED <<view, transcript, errorState, pollInterval, statusInterval, activePoll,
                   activeStatus, timerSeq, net>>
    /\ UNCHANGED <<playerVars, speedVars, route, chatVars, minutesVars, kbVars,
                   panelVars>>

----------------------------------------------------------------------------
(* MinutesView.vue, minutes page: editor of the minutes body *)

\* what the user types into the textarea
MinutesTexts == { <<"n", "e", "w">>, <<>> }

\* startEditingMinutes: the button "Edit" (disabled while isGenerating)
StartEditingMinutes ==
    /\ route = "minutes"
    /\ minutesView = "mounted"
    /\ ~isEditingMinutes
    /\ ~isGenerating
    /\ editedMinutesContent' = RenderedSource
    /\ isEditingMinutes' = TRUE
    /\ UNCHANGED <<server, shown, speakerColors, editingSpeaker, isEditingName, editedName,
                   isEditingDate, editedDate, editNet, viewMessage>>
    /\ UNCHANGED <<watchVars, playerVars, speedVars, route, chatVars, minutesVars, kbVars,
                   panelVars>>

\* v-model="editedMinutesContent"
TypeMinutes(text) ==
    /\ route = "minutes"
    /\ isEditingMinutes
    /\ editedMinutesContent' = text
    /\ UNCHANGED <<server, shown, speakerColors, editingSpeaker, isEditingName, editedName,
                   isEditingDate, editedDate, editNet, viewMessage, isEditingMinutes>>
    /\ UNCHANGED <<watchVars, playerVars, speedVars, route, chatVars, minutesVars, kbVars,
                   panelVars>>

\* cancelEditMinutes: the button "Cancel"
CancelEditMinutes ==
    /\ route = "minutes"
    /\ isEditingMinutes
    /\ isEditingMinutes' = FALSE
    /\ editedMinutesContent' = <<>>
    /\ UNCHANGED <<server, shown, speakerColors, editingSpeaker, isEditingName, editedName,
                   isEditingDate, editedDate, editNet, viewMessage>>
    /\ UNCHANGED <<watchVars, playerVars, speedVars, route, chatVars, minutesVars, kbVars,
                   panelVars>>

\* saveMinutes up to its await: the button "Save"
SaveMinutes ==
    /\ route = "minutes"
    /\ isEditingMinutes
    /\ BagCardinality(editNet) + BagCardinality(minutesNet) < MaxEditInflight
    /\ editNet' = Send(editNet, [kind |-> "putMinutes", content |-> editedMinutesContent])
    /\ UNCHANGED <<server, shown, speakerColors, editingSpeaker, isEditingName, editedName,
                   isEditingDate, editedDate, viewMessage, isEditingMinutes,
                   editedMinutesContent>>
    /\ UNCHANGED <<watchVars, playerVars, speedVars, route, chatVars, minutesVars, kbVars,
                   panelVars>>

\* saveMinutes, the end of its try branch
EndSaveMinutes ==
    /\ streamContent' = editedMinutesContent
    /\ isEditingMinutes' = FALSE
    /\ elMessage' = "Minutes saved"

\* saveMinutes from the response of its PUT on, up to its await of
\* fetchMinutes when there are no minutes
SaveMinutesResponse(req, r) ==
    /\ BagIn(req, editNet)
    /\ req.kind = "putMinutes"
    /\ editNet' = Take(editNet, req)
    /\ IF r.status # 200
       THEN /\ elMessage' = "Failed to save minutes"
            /\ UNCHANGED <<minutes, streamContent, minutesNet, isEditingMinutes>>
       ELSE IF minutes # Null
       THEN /\ minutes' = [minutes EXCEPT !.content = editedMinutesContent]
            /\ EndSaveMinutes
            /\ UNCHANGED minutesNet
       ELSE /\ minutesNet' = Send(minutesNet, MinutesRequest("save", 0))
            /\ UNCHANGED <<minutes, streamContent, elMessage, isEditingMinutes>>
    /\ UNCHANGED <<server, shown, speakerColors, editingSpeaker, isEditingName, editedName,
                   isEditingDate, editedDate, viewMessage, editedMinutesContent>>
    /\ UNCHANGED <<minutesView, minutesRecording, loading, isGenerating, streamCalls>>
    /\ UNCHANGED <<watchVars, playerVars, speedVars, route, chatVars, kbVars,
                   panelVars>>

\* fetchMinutes awaited by saveMinutes, from its response on, and the end of
\* saveMinutes
SaveMinutesRefreshed(r) ==
    /\ BagIn(MinutesRequest("save", 0), minutesNet)
    /\ minutesNet' = Take(minutesNet, MinutesRequest("save", 0))
    /\ minutes' = IF r.status = 200 THEN [content |-> r.content] ELSE Null
    /\ EndSaveMinutes
    /\ UNCHANGED <<server, shown, speakerColors, editingSpeaker, isEditingName, editedName,
                   isEditingDate, editedDate, editNet, viewMessage, editedMinutesContent>>
    /\ UNCHANGED <<minutesView, minutesRecording, loading, isGenerating, streamCalls>>
    /\ UNCHANGED <<watchVars, playerVars, speedVars, route, chatVars, kbVars,
                   panelVars>>

----------------------------------------------------------------------------
(* MinutesView.vue, project workspace: citations in the chat messages *)

DecimalDigits == {"0", "1", "2", "3", "4", "5", "6", "7", "8", "9"}

\* the length of the run of digits that ends the text
RECURSIVE TrailingDigits(_)
TrailingDigits(s) ==
    IF s # <<>> /\ s[Len(s)] \in DecimalDigits
    THEN 1 + TrailingDigits(SubSeq(s, 1, Len(s) - 1))
    ELSE 0

\* sourceName.match(/^<word>_(.*)_(\d+)$/i): Null, or the two groups.  '.*' is
\* greedy and a digit is no '_', so the second group is the whole run of digits
\* at the end, which a '_' after the prefix must precede
MatchNamed(sourceName, word) ==
    LET prefix == ToLowerCase(word) \o <<"_">>
        n == TrailingDigits(sourceName)
        u == Len(sourceName) - n
    IN  IF /\ StartsWith(ToLowerCase(sourceName), prefix)
           /\ n > 0
           /\ u > Len(prefix)
           /\ sourceName[u] = "_"
        THEN [name |-> SubSeq(sourceName, Len(prefix) + 1, u - 1),
              id |-> SubSeq(sourceName, u + 1, Len(sourceName))]
        ELSE Null

WordMinutes == <<"M", "i", "n", "u", "t", "e", "s">>
WordTranscript == <<"T", "r", "a", "n", "s", "c", "r", "i", "p", "t">>
WordDocument == <<"D", "o", "c", "u", "m", "e", "n", "t">>

\* the keywords of the knowledge base with the section and the label of each
\* (the labels are in Chinese in the source: requirements document, functional
\* specification, timeline, glossary, business flows)
KBKeywords ==
    << [key |-> <<"p", "r", "d">>, section |-> "prd", label |-> <<"requirements document">>],
       [key |-> <<"s", "p", "e", "c", "s">>, section |-> "specs",
        label |-> <<"functional specification">>],
       [key |-> <<"t", "i", "m", "e", "l", "i", "n", "e">>, section |-> "timeline",
        label |-> <<"timeline">>],
       [key |-> <<"g", "l", "o", "s", "s", "a", "r", "y">>, section |-> "glossary",
        label |-> <<"glossary">>],
       [key |-> <<"b", "u", "s", "i", "n", "e", "s", "s">>, section |-> "business_flows",
        label |-> <<"business flows">>] >>

\* sourceName.match(/^(PRD|SPECS|TIMELINE|GLOSSARY|BUSINESS)_(\d+)$/i): Null, or
\* the entry of the keyword and the digits
MatchKeyword(sourceName) ==
    LET lower == ToLowerCase(sourceName)
        n == TrailingDigits(sourceName)
        hits == {k \in DOMAIN KBKeywords :
                    n > 0 /\ lower = KBKeywords[k].key \o <<"_">>
                                       \o SubSeq(sourceName, Len(sourceName) - n + 1,
                                                 Len(sourceName))}
    IN  IF hits = {} THEN Null
        ELSE [entry |-> KBKeywords[CHOOSE k \in hits : TRUE],
              id |-> SubSeq(sourceName, Len(sourceName) - n + 1, Len(sourceName))]

\* what the callback of html.replace found for one [[sourceName]]
Citation(isCitation, icon, type, id, section, displayName, href) ==
    [isCitation |-> isCitation, icon |-> icon, type |-> type, id |-> id,
     section |-> section, displayName |-> displayName, href |-> href]

\* the callback when the branch taken extracted nothing
Unrecognized(sourceName, icon) ==
    Citation(FALSE, icon, "", <<>>, "", sourceName, <<"#">>)

\* the callback of html.replace: the first branch whose test passes is taken
ParseSourceName(sourceName) ==
    LET lower == ToLowerCase(sourceName)
    IN  IF Includes(lower, ToLowerCase(WordMinutes))
        THEN LET m == MatchNamed(sourceName, WordMinutes)
             IN  IF m # Null
                 THEN Citation(TRUE, "event_note", "minutes", m.id, "", m.name,
                               <<"/recording/">> \o m.id \o <<"/minutes">>)
                 ELSE Unrecognized(sourceName, "event_note")
        ELSE IF Includes(lower, ToLowerCase(WordTranscript))
        THEN LET m == MatchNamed(sourceName, WordTranscript)
             IN  IF m # Null
                 THEN Citation(TRUE, "record_voice_over", "transcript", m.id, "", m.name,
                               <<"/recording/">> \o m.id)
                 ELSE Unrecognized(sourceName, "record_voice_over")
        ELSE IF MatchKeyword(sourceName) # Null
        THEN LET m == MatchKeyword(sourceName)
             IN  Citation(TRUE, "library_books", "kb", <<>>, m.entry.section, m.entry.label,
                          <<"/project/", "projectId", "?tab=kb">>)
        ELSE IF StartsWith(lower, ToLowerCase(WordDocument) \o <<"_">>)
        THEN LET m == MatchNamed(sourceName, WordDocument)
             IN  IF m # Null
                 THEN Citation(TRUE, "article", "document", m.id, "", m.name,
                               <<"/project/", "projectId", "?tab=files">>)
                 ELSE Unrecognized(sourceName, "article")
        ELSE Unrecognized(sourceName, "description")

\* a piece of the html shown: text, or the element put in place of a token
TextPiece(text) ==
    [kind |-> "text", text |-> text, icon |-> "", type |-> "", id |-> <<>>,
     section |-> "", href |-> <<>>]

\* the <a class="source-link"> or the <span> returned for one token
Element(c) ==
    IF c.isCitation
    THEN [kind |-> "link", text |-> c.displayName, icon |-> c.icon, type |-> c.type,
          id |-> c.id, section |-> c.section, href |-> c.href]
    ELSE [kind |-> "badge", text |-> c.displayName, icon |-> c.icon, type |-> "",
          id |-> <<>>, section |-> "", href |-> <<>>]

\* /\[\[(.*?)\]\]/g: the matches from left to right.  A match starts at the
\* first '[[' that a ']]' follows with no line break between ('.' matches
\* none), and ends at the first such ']]'
RECURSIVE Tokens(_, _)
Tokens(html, from) ==
    LET open == IndexFrom(html, <<"[", "[">>, from)
        close == IF open = 0 THEN 0 ELSE IndexFrom(html, <<"]", "]">>, open + 2)
    IN  IF open = 0 \/ close = 0 THEN <<>>
        ELSE IF \E i \in (open + 2)..(close - 1) : html[i] = "\n"
        THEN Tokens(html, open + 1)
        ELSE <<[open |-> open, close |-> close]>> \o Tokens(html, close + 2)

\* html.replace(/\[\[(.*?)\]\]/g, callback): the text between the matches and
\* the element of each match, in order
TransformCitations(html) ==
    LET ts == Tokens(html, 1)
        Before(k) == SubSeq(html, IF k = 1 THEN 1 ELSE ts[k - 1].close + 2,
                            IF k > Len(ts) THEN Len(html) ELSE ts[k].open - 1)
        Piece(j) ==
            IF j % 2 = 1 THEN TextPiece(Before((j + 1) \div 2))
            ELSE Element(ParseSourceName(SubSeq(html, ts[j \div 2].open + 2,
                                                ts[j \div 2].close - 1)))
    IN  [j \in 1..(2 * Len(ts) + 1) |-> Piece(j)]

\* md.render of one paragraph of plain text
MdRender(content) == <<"<p>">> \o content \o <<"</p>", "\n">>

\* renderMessage
RenderMessage(content) ==
    IF content = <<>> THEN <<>> ELSE TransformCitations(MdRender(content))

\* the content of an entry of chatMessages
MessageContent(m) == IF m.call = 0 THEN m.content ELSE chatCalls[m.call].msg.content

\* a message loaded from a session: res.data.map of loadSessionMessages
LoadedMessage(role, content) == [role |-> role, content |-> content, call |-> 0]

\* messages with citation tokens: the two of the specification, each
\* recognized form, malformed ones, two tokens in one message, a '[[' left open
CitationInputs ==
    { <<"S", "e", "e", " ", "[", "[", "M", "i", "n", "u", "t", "e", "s", "_", "S", "t", "a", "n", "d", "u", "p", "_", "4", "2", "]", "]", " ", "f", "o", "r", " ", "d", "e", "t", "a", "i", "l", "s">>,
      <<"S", "e", "e", " ", "[", "[", "U", "n", "k", "n", "o", "w", "n", "_", "F", "o", "r", "m", "a", "t", "]", "]">>,
      <<"[", "[", "t", "r", "a", "n", "s", "c", "r", "i", "p", "t", "_", "Q", "1", "_", "7", "]", "]">>,
      <<"[", "[", "D", "o", "c", "u", "m", "e", "n", "t", "_", "a", "_", "7", "]", "]">>,
      <<"[", "[", "P", "R", "D", "_", "7", "]", "]", "[", "[", "b", "u", "s", "i", "n", "e", "s", "s", "_", "1", "2", "]", "]">>,
      <<"[", "[", "M", "i", "n", "u", "t", "e", "s", "_", "4", "2", "]", "]">>,
      <<"[", "[", "s", "p", "e", "c", "s", "_", "x", "]", "]">>,
      <<"[", "[", "M", "i", "n", "u", "t", "e", "s", "_", "_", "4", "]", "]">>,
      <<"[", "[", "D", "o", "c", "u", "m", "e", "n", "t", "_", "M", "i", "n", "u", "t", "e", "s", "_", "5", "]", "]">>,
      <<"[", "[", "T", "r", "a", "n", "s", "c", "r", "i", "p", "t", "_", "a", "_", "b", "_", "0", "7", "]", "]", " ", "[", "[">> }

\* the template: v-html="renderMessage(msg.content)" of the last message
RenderChat ==
    /\ projectView = "mounted"
    /\ chatMessages # <<>>
    /\ rendered # RenderMessage(MessageContent(chatMessages[Len(chatMessages)]))
    /\ rendered' = RenderMessage(MessageContent(chatMessages[Len(chatMessages)]))
    /\ UNCHANGED <<activeTab, activeKbSection, fileTypeFilter, sessionNet, searchQuery, route,
                   chatVars, kbVars>>
    /\ UNCHANGED nonWorkspaceVars

\* what handleMessageClick does for a link: the view router.push opens with
\* the recording's id, or the tab (and section) it shows; "none" when no
\* branch is taken
ClickTarget(link) ==
    IF link.type = "minutes" /\ link.id # <<>>
    THEN [to |-> "minutes", id |-> link.id, section |-> ""]
    ELSE IF link.type = "transcript" /\ link.id # <<>>
    THEN [to |-> "transcription", id |-> link.id, section |-> ""]
    ELSE IF link.type = "kb"
    THEN [to |-> "kb", id |-> <<>>, section |-> link.section]
    ELSE IF link.type = "document"
    THEN [to |-> "files", id |-> <<>>, section |-> ""]
    ELSE [to |-> "none", id |-> <<>>, section |-> ""]

\* handleMessageClick: a click on piece k of the message shown
HandleMessageClick(k) ==
    /\ projectView = "mounted"
    /\ route = "project-detail"
    /\ activeTab = "chat"
    /\ k \in DOMAIN rendered
    /\ rendered[k].kind = "link"
    /\ LET target == ClickTarget(rendered[k])
       IN  /\ route' = IF target.to \in {"minutes", "transcription"} THEN target.to ELSE route
           /\ activeTab' = IF target.to \in {"kb", "files"} THEN target.to ELSE activeTab
           /\ activeKbSection' = IF target.to = "kb" /\ target.section # ""
                                 THEN target.section ELSE activeKbSection
           /\ fileTypeFilter' = IF target.to = "files" THEN "all" ELSE fileTypeFilter
           /\ kbMessage' = IF target.to = "files"
                           THEN Notice("info", <<"moved to the file list">>) ELSE kbMessage
    /\ UNCHANGED <<rendered, sessionNet, searchQuery, chatVars>>
    /\ UNCHANGED <<projectView, availableMinutes, documents, knowledgeBase, isGeneratingKB,
                   showSelectMinutesModal, showResearchModal, researchStatusMessage,
                   selectedMinutesIds, selectedDocumentIds, kbCalls, kbNet>>
    /\ UNCHANGED nonWorkspaceVars

\* the watcher of route.query.tab: the tab named in the address is shown
TabChanged(newTab) ==
    /\ projectView = "mounted"
    /\ route = "project-detail"
    /\ activeTab' = IF newTab \in {"kb", "settings", "chat"} THEN newTab ELSE "files"
    /\ activeTab' # activeTab
    /\ UNCHANGED <<activeKbSection, fileTypeFilter, rendered, sessionNet, searchQuery, route,
                   chatVars, kbVars>>
    /\ UNCHANGED nonWorkspaceVars

\* the template: the select bound to fileTypeFilter
SelectFileType(value) ==
    /\ projectView = "mounted"
    /\ route = "project-detail"
    /\ activeTab = "files"
    /\ value # fileTypeFilter
    /\ fileTypeFilter' = value
    /\ UNCHANGED <<activeTab, activeKbSection, rendered, sessionNet, searchQuery, route,
                   chatVars, kbVars>>
    /\ UNCHANGED nonWorkspaceVars

\* the template: a click on a section of the knowledge base
SelectKbSection(id) ==
    /\ projectView = "mounted"
    /\ route = "project-detail"
    /\ activeTab = "kb"
    /\ id # activeKbSection
    /\ activeKbSection' = id
    /\ UNCHANGED <<activeTab, fileTypeFilter, rendered, sessionNet, searchQuery, route,
                   chatVars, kbVars>>
    /\ UNCHANGED nonWorkspaceVars

----------------------------------------------------------------------------
(* MinutesView.vue, project workspace: the sessions of the chat *)

\* the messages the back end holds for a session: two sessions with a history,
\* none for a session just created
SessionMessages(id) ==
    CASE id = 1 -> <<LoadedMessage("user", <<"h", "i">>), LoadedMessage("assistant", <<"a">>)>>
      [] id = 2 -> <<LoadedMessage("user", <<"q">>), LoadedMessage("assistant", <<"b">>)>>
      [] OTHER  -> <<>>

\* GET /projects/chat/sessions/{id}/messages and POST /projects/{id}/chat/sessions:
\* answered, or failed
SessionRequestOutcomes == {200, 0}

\* loadSessionMessages up to its await: a click on a session of the list
LoadSessionMessages(sessionId) ==
    /\ projectView = "mounted"
    /\ \E k \in DOMAIN chatSessions : chatSessions[k] = sessionId
    /\ ~(currentSessionId = sessionId /\ Len(chatMessages) > 0)
    /\ BagCardinality(sessionNet) < MaxSessionRequests
    /\ currentSessionId' = sessionId
    /\ sessionNet' = Send(sessionNet, [kind |-> "getMessages", session |-> sessionId])
    /\ UNCHANGED <<chatInput, isChatting, chatMessages, chatSessions, chatCalls, chatNet>>
    /\ UNCHANGED <<activeTab, activeKbSection, fileTypeFilter, rendered, searchQuery, route,
                   kbVars>>
    /\ UNCHANGED nonWorkspaceVars

\* loadSessionMessages from the response on
LoadSessionMessagesResponse(req, status) ==
    /\ BagIn(req, sessionNet)
    /\ req.kind = "getMessages"
    /\ sessionNet' = Take(sessionNet, req)
    /\ chatMessages' = IF status = 200 THEN SessionMessages(req.session) ELSE chatMessages
    /\ UNCHANGED <<chatInput, currentSessionId, isChatting, chatSessions, chatCalls, chatNet>>
    /\ UNCHANGED <<activeTab, activeKbSection, fileTypeFilter, rendered, searchQuery, route,
                   kbVars>>
    /\ UNCHANGED nonWorkspaceVars

\* createNewSession up to its await: a click on the button of a new conversation
CreateNewSession ==
    /\ projectView = "mounted"
    /\ Len(chatSessions) < MaxSessions
    /\ BagCardinality(sessionNet) < MaxSessionRequests
    /\ sessionNet' = Send(sessionNet, [kind |-> "postSession", session |-> NoSession])
    /\ UNCHANGED chatVars
    /\ UNCHANGED <<activeTab, activeKbSection, fileTypeFilter, rendered, searchQuery, route,
                   kbVars>>
    /\ UNCHANGED nonWorkspaceVars

\* createNewSession from the response on; the back end gives the new session
\* the next id
CreateNewSessionResponse(req, status) ==
    /\ BagIn(req, sessionNet)
    /\ req.kind = "postSession"
    /\ sessionNet' = Take(sessionNet, req)
    /\ IF status = 200
       THEN /\ chatSessions' = <<Len(chatSessions) + 1>> \o chatSessions
            /\ currentSessionId' = Len(chatSessions) + 1
            /\ chatMessages' = <<>>
       ELSE UNCHANGED <<chatSessions, currentSessionId, chatMessages>>
    /\ UNCHANGED <<chatInput, isChatting, chatCalls, chatNet>>
    /\ UNCHANGED <<activeTab, activeKbSection, fileTypeFilter, rendered, searchQuery, route,
                   kbVars>>
    /\ UNCHANGED nonWorkspaceVars

----------------------------------------------------------------------------
(* Specifications *)

\* TranscriptionView.vue, script setup: the refs of the watchers and the player
InitView ==
    /\ view = "setup"
    /\ transcript = Null
    /\ recording = Null
    /\ errorState = EmptyText
    /\ pollInterval = NoTimer
    /\ statusInterval = NoTimer
    /\ activePoll = {}
    /\ activeStatus = {}
    /\ timerSeq = 0
    /\ net = EmptyBag
    /\ audioRef = FALSE
    /\ el = FreshElement
    /\ isPlaying = FALSE
    /\ currentTime = 0
    /\ duration = 0
    /\ stopAt = NoStop
    /\ playPromises = EmptyBag
    /\ metaListeners = <<>>
    /\ endedPending = FALSE

\* MinutesView.vue, script setup of the project workspace: the refs of the chat
InitChat ==
    /\ chatInput = <<>>
    /\ currentSessionId = NoSession
    /\ isChatting = FALSE
    /\ chatMessages = <<>>
    /\ chatSessions = <<>>
    /\ chatCalls = <<>>
    /\ chatNet = EmptyBag

\* MinutesView.vue, script setup of the project workspace: the refs of the
\* knowledge base
InitKB ==
    /\ availableMinutes = {}
    /\ documents = {}
    /\ knowledgeBase = Null
    /\ isGeneratingKB = FALSE
    /\ showSelectMinutesModal = FALSE
    /\ showResearchModal = FALSE
    /\ researchStatusMessage = JString(<<>>)
    /\ selectedMinutesIds = {}
    /\ selectedDocumentIds = {}
    /\ kbCalls = <<>>
    /\ kbNet = EmptyBag
    /\ kbMessage = NoNotice

\* MinutesView.vue, script setup of the minutes page
InitMinutes ==
    /\ minutesView = "setup"
    /\ minutesRecording = Null
    /\ minutes = Null
    /\ loading = FALSE
    /\ isGenerating = FALSE
    /\ streamContent = <<>>
    /\ streamCalls = <<>>
    /\ minutesNet = EmptyBag
    /\ elMessage = ""

\* the back end when the view opens, and script setup of the editors of
\* TranscriptionView.vue and MinutesView.vue
InitEditors ==
    /\ server = ServerData
    /\ shown = [stats |-> <<>>, active |-> -1, rows |-> <<>>]
    /\ speakerColors = <<>>
    /\ editingSpeaker = Null
    /\ isEditingName = FALSE
    /\ editedName = <<>>
    /\ isEditingDate = FALSE
    /\ editedDate = NoDate
    /\ editNet = EmptyBag
    /\ viewMessage = ""
    /\ isEditingMinutes = FALSE
    /\ editedMinutesContent = <<>>

\* MinutesView.vue, script setup of the project workspace: the tabs and the
\* chat panel
InitWorkspace ==
    /\ activeTab = "files"
    /\ activeKbSection = "prd"
    /\ fileTypeFilter = "all"
    /\ rendered = <<>>
    /\ sessionNet = EmptyBag

\* script setup of both views: the workspace's panels, an empty search
InitPanels ==
    /\ InitWorkspace
    /\ searchQuery = <<>>

\* the recording view is shown
Init ==
    /\ InitView
    /\ playbackRate = 100
    /\ rateHistory = <<>>
    /\ route = "transcription"
    /\ InitChat
    /\ InitMinutes
    /\ projectView = "setup"
    /\ InitKB
    /\ InitEditors
    /\ InitPanels

\* the recording view's two watchers and the retry action
Next ==
    \/ OnMounted
    \/ OnUnmounted
    \/ \E t \in activeStatus : StatusTick(t)
    \/ \E t \in activePoll : PollTick(t)
    \/ \E r \in RecordingResponses : FetchRecordingResponse(r)
    \/ \E r \in TranscriptResponses : FetchTranscriptResponse(r)
    \/ RetryTranscribeCall
    \/ \E r \in TranscribeResponses : RetryTranscribeResponse(r)

Spec == Init /\ [][Next]_vars

\* the media playback controller and its element
NextPlayer ==
    \/ BindElement
    \/ \E t \in Times : ElementAdvance(t)
    \/ ExternalPause
    \/ OnTimeUpdate
    \/ OnEnded
    \/ TogglePlay
    \/ \E d \in SeekDeltas : Seek(d)
    \/ \E f \in ClickFractions : ProgressClick(f)
    \/ \E seg \in Segments : SeekToNow(seg)
    \/ \E seg \in Segments : SeekToDeferred(seg)
    \/ \E a \in BOOLEAN : PlaySettled(a)
    \/ OnLoadedMetadata

SpecPlayer == Init /\ [][NextPlayer]_vars

\* changeSpeed from any rate the ref may hold, with and without a media element
InitSpeed ==
    /\ InitView
    /\ playbackRate \in RateInputs
    /\ rateHistory = <<>>
    /\ route = "transcription"
    /\ InitChat
    /\ InitMinutes
    /\ projectView = "setup"
    /\ InitKB
    /\ InitEditors
    /\ InitPanels

NextSpeed ==
    \/ BindElement
    \/ ChangeSpeed

SpecSpeed == InitSpeed /\ [][NextSpeed]_vars

\* the minutes page or the project workspace is shown
InitPages ==
    /\ InitView
    /\ playbackRate = 100
    /\ rateHistory = <<>>
    /\ route \in {"minutes", "project-detail"}
    /\ InitChat
    /\ InitMinutes
    /\ projectView = "setup"
    /\ InitKB
    /\ InitEditors
    /\ InitPanels

\* the minutes page (generation of the minutes) and the chat of the project
\* workspace, with short chat streams that arrive in one chunk
NextPages ==
    \/ OnMountedMinutes
    \/ \E r \in MinutesRecordingResponses : MinutesRecordingResponse(r)
    \/ SaveDraftClick
    \/ RegenerateClick
    \/ \E req \in BagToSet(minutesNet) : \E r \in MinutesResponses : MinutesResponse(req, r)
    \/ \E i \in DOMAIN streamCalls : \E r \in StreamResponses : StreamResponse(i, r)
    \/ \E i \in DOMAIN streamCalls : StreamRead(i)
    \/ \E i \in DOMAIN streamCalls : StreamReadDone(i)
    \/ \E i \in DOMAIN streamCalls : StreamReadError(i)
    \/ OnMountedProject
    \/ \E t \in ChatInputs : TypeChatInput(t)
    \/ SendChatMessage
    \/ \E i \in DOMAIN chatCalls : \E r \in SessionResponses(i) : ChatSessionResponse(i, r)
    \/ \E i \in DOMAIN chatCalls : \E r \in ChatResponses(BriefStreams) : ChatFetchResponse(i, r)
    \/ \E i \in DOMAIN chatCalls : ChatRead(i, Len(chatCalls[i].rest))
    \/ \E i \in DOMAIN chatCalls : ChatReadDone(i)
    \/ \E i \in DOMAIN chatCalls : ChatReadError(i)
    \/ \E r \in SessionListResponses : FetchChatSessionsResponse(r)

SpecPages == InitPages /\ [][NextPages]_vars

\* one invocation of sendChatMessage has reached its read loop, for any of the
\* chat streams, with or without a session
InitParser ==
    /\ InitView
    /\ playbackRate = 100
    /\ rateHistory = <<>>
    /\ route = "project-detail"
    /\ InitMinutes
    /\ projectView = "mounted"
    /\ InitKB
    /\ InitEditors
    /\ InitPanels
    /\ chatInput = <<>>
    /\ isChatting = TRUE
    /\ currentSessionId \in {NoSession, 1}
    /\ chatSessions = IF currentSessionId = NoSession THEN <<>> ELSE <<currentSessionId>>
    /\ chatMessages = <<UserMessage(<<"h", "i">>), AssistantMessage(1)>>
    /\ chatNet = EmptyBag
    /\ \E evs \in ChatStreams :
          chatCalls = <<[pc |-> "read", query |-> <<"h", "i">>, session |-> currentSessionId,
                         msg |-> NewAssistantMsg, events |-> evs,
                         rest |-> Encode(Wire(evs))]>>

\* the read loop of the chat, the stream cut into chunks at any place
NextParser ==
    \/ \E i \in DOMAIN chatCalls : \E n \in 1..Len(chatCalls[i].rest) : ChatRead(i, n)
    \/ \E i \in DOMAIN chatCalls : ChatReadDone(i)
    \/ \E i \in DOMAIN chatCalls : ChatReadError(i)
    \/ \E r \in SessionListResponses : FetchChatSessionsResponse(r)

SpecParser == InitParser /\ [][NextParser]_vars

\* the project workspace is shown: its fetches and the generation of the
\* knowledge base (the chat is left alone, the session list is not answered)
InitKnowledge ==
    /\ InitView
    /\ playbackRate = 100
    /\ rateHistory = <<>>
    /\ route = "project-detail"
    /\ InitChat
    /\ InitMinutes
    /\ projectView = "setup"
    /\ InitKB
    /\ InitEditors
    /\ InitPanels

NextKnowledge ==
    \/ OnMountedProject
    \/ \E r \in RecordingsResponses : RecordingsResponse(r)
    \/ \E r \in DocumentsResponses : DocumentsResponse(r)
    \/ \E r \in KnowledgeBaseResponses : KnowledgeBaseResponse(r)
    \/ OpenGenerateModal
    \/ \E id \in availableMinutes \cup documents : ToggleSelection(id)
    \/ CancelSelection
    \/ ConfirmGenerate
    \/ \E i \in DOMAIN kbCalls : \E r \in KBResponses : KBFetchResponse(i, r)
    \/ \E i \in DOMAIN kbCalls : \E n \in ChunkSizes(kbCalls[i].rest) : KBRead(i, n)
    \/ \E i \in DOMAIN kbCalls : KBReadDone(i)
    \/ \E i \in DOMAIN kbCalls : KBReadError(i)

SpecKnowledge == InitKnowledge /\ [][NextKnowledge]_vars

\* the recording view after its first fetches were answered, no poll timer left
InitLoaded ==
    /\ view = "mounted"
    /\ transcript = server.transcript
    /\ recording = [status |-> "completed", error_message |-> <<>>,
                    filename |-> server.filename, created_at |-> server.created_at]
    /\ errorState = EmptyText
    /\ pollInterval = NoTimer
    /\ statusInterval = 1
    /\ activePoll = {}
    /\ activeStatus = {1}
    /\ timerSeq = 1
    /\ net = EmptyBag

\* the media element bound, its metadata loaded, playing from the start
InitPlaying ==
    /\ audioRef = TRUE
    /\ el = [FreshElement EXCEPT !.paused = FALSE, !.readyState = 1,
                                 !.duration = MediaDuration]
    /\ isPlaying = TRUE
    /\ currentTime = 0
    /\ duration = MediaDuration * 1000
    /\ stopAt = NoStop
    /\ playPromises = EmptyBag
    /\ metaListeners = <<>>
    /\ endedPending = FALSE

\* the recording view with a transcript loaded and the media playing: what it
\* shows of any transcript at any playback time
InitTranscript ==
    /\ \E content \in TranscriptInputs :
          server = [ServerData EXCEPT !.transcript.content = content]
    /\ InitLoaded
    /\ InitPlaying
    /\ playbackRate = 100
    /\ rateHistory = <<>>
    /\ route = "transcription"
    /\ InitChat
    /\ InitMinutes
    /\ projectView = "setup"
    /\ InitKB
    /\ InitWorkspace
    /\ searchQuery \in Queries
    /\ shown = [stats |-> <<>>, active |-> -1, rows |-> <<>>]
    /\ speakerColors = <<>>
    /\ editingSpeaker = Null
    /\ isEditingName = FALSE
    /\ editedName = <<>>
    /\ isEditingDate = FALSE
    /\ editedDate = NoDate
    /\ editNet = EmptyBag
    /\ viewMessage = ""
    /\ isEditingMinutes = FALSE
    /\ editedMinutesContent = <<>>

NextTranscript ==
    \/ Render
    \/ \E t \in Times : ElementAdvance(t)
    \/ OnTimeUpdate
    \/ OnEnded

SpecTranscript == InitTranscript /\ [][NextTranscript]_vars

\* the minutes page after onMounted: with the persisted minutes shown, or
\* without minutes after a generation that failed
InitMinutesLoaded ==
    /\ minutesView = "mounted"
    /\ minutesRecording = [media_url |-> ""]
    /\ minutesNet = EmptyBag
    /\ loading = FALSE
    /\ isGenerating = FALSE
    /\ \/ /\ minutes = [content |-> PersistedContent]
          /\ streamContent = PersistedContent
          /\ streamCalls = <<>>
          /\ elMessage = ""
       \/ /\ minutes = Null
          /\ streamContent = <<>>
          /\ streamCalls = << [pc |-> "done", rest |-> <<>>, got |-> <<>>] >>
          /\ elMessage = "Generation failed"

\* the recording view with its transcript loaded: the rename of a speaker; the
\* transcript fetched again after a refusal arrives or fails
InitRename ==
    /\ InitEditors
    /\ InitPanels
    /\ InitLoaded
    /\ InitPlaying
    /\ playbackRate = 100
    /\ rateHistory = <<>>
    /\ route = "transcription"
    /\ InitChat
    /\ InitMinutes
    /\ projectView = "setup"
    /\ InitKB

NextRename ==
    \/ Render
    \/ \E speakerId \in {<<"A">>, <<"B">>, <<"C">>} : StartEditingSpeaker(speakerId)
    \/ \E text \in SpeakerNames : TypeSpeakerName(text)
    \/ SaveSpeakerName
    \/ \E req \in BagToSet(editNet) : \E r \in UpdateResponses : SaveSpeakerResponse(req, r)
    \/ \E r \in {Response(200), Response(500), Response(0)} : FetchTranscriptResponse(r)

SpecRename == InitRename /\ [][NextRename]_vars

\* the recording view with its recording loaded, or the minutes page with its
\* minutes loaded: the editors of the title, the date and the minutes body
InitEditing ==
    /\ InitEditors
    /\ InitPanels
    /\ route \in {"transcription", "minutes"}
    /\ IF route = "transcription"
       THEN InitLoaded /\ InitPlaying /\ InitMinutes
       ELSE InitView /\ InitMinutesLoaded
    /\ playbackRate = 100
    /\ rateHistory = <<>>
    /\ InitChat
    /\ projectView = "setup"
    /\ InitKB

NextEditing ==
    \/ StartEditingName
    \/ \E text \in RecordingNames : TypeRecordingName(text)
    \/ SaveRecordingName
    \/ \E req \in BagToSet(editNet) : \E r \in UpdateResponses :
          SaveRecordingNameResponse(req, r)
    \/ StartEditingDate
    \/ BlurDate
    \/ \E picked \in Dates \cup {NoDate} : SaveRecordingDate(picked)
    \/ \E req \in BagToSet(editNet) : \E r \in UpdateResponses :
          SaveRecordingDateResponse(req, r)
    \/ StartEditingMinutes
    \/ \E text \in MinutesTexts : TypeMinutes(text)
    \/ CancelEditMinutes
    \/ SaveMinutes
    \/ \E req \in BagToSet(editNet) : \E r \in UpdateResponses : SaveMinutesResponse(req, r)
    \/ \E r \in MinutesResponses : SaveMinutesRefreshed(r)

SpecEditing == InitEditing /\ [][NextEditing]_vars

\* the chat panel of the workspace shows a session whose last message holds
\* citation tokens
InitCitations ==
    /\ InitView
    /\ playbackRate = 100
    /\ rateHistory = <<>>
    /\ route = "project-detail"
    /\ InitMinutes
    /\ projectView = "mounted"
    /\ InitKB
    /\ InitEditors
    /\ InitPanels
    /\ chatInput = <<>>
    /\ isChatting = FALSE
    /\ currentSessionId = 1
    /\ chatSessions = <<1>>
    /\ chatCalls = <<>>
    /\ chatNet = EmptyBag
    /\ \E content \in CitationInputs :
          chatMessages = <<LoadedMessage("user", <<"h", "i">>),
                           LoadedMessage("assistant", content)>>

\* the message is rendered, the user changes tabs and clicks on the references
NextCitations ==
    \/ RenderChat
    \/ \E k \in DOMAIN rendered : HandleMessageClick(k)
    \/ \E newTab \in {"kb", "settings", "chat", "none"} : TabChanged(newTab)
    \/ \E value \in {"all", "recording"} : SelectFileType(value)
    \/ \E k \in DOMAIN KBKeywords : SelectKbSection(KBKeywords[k].section)

SpecCitations == InitCitations /\ [][NextCitations]_vars

\* the recording view just after retryTranscribe returned from an accepted
\* request: error and transcript cleared, a new poll timer started, and one
\* fetchTranscript, called before, still to be answered
InitRetried ==
    /\ view = "mounted"
    /\ transcript = Null
    /\ \E st \in {"completed", "error"} :
          recording = [status |-> st, error_message |-> <<>>,
                       filename |-> server.filename, created_at |-> server.created_at]
    /\ errorState = EmptyText
    /\ statusInterval = 1
    /\ activeStatus = {1}
    /\ pollInterval = 2
    /\ activePoll = {2}
    /\ timerSeq = 2
    /\ net = Send(EmptyBag, EarlierFetch)
    /\ audioRef = FALSE
    /\ el = FreshElement
    /\ isPlaying = FALSE
    /\ currentTime = 0
    /\ duration = 0
    /\ stopAt = NoStop
    /\ playPromises = EmptyBag
    /\ metaListeners = <<>>
    /\ endedPending = FALSE

InitRetry ==
    /\ InitEditors
    /\ InitPanels
    /\ InitRetried
    /\ playbackRate = 100
    /\ rateHistory = <<>>
    /\ route = "transcription"
    /\ InitChat
    /\ InitMinutes
    /\ projectView = "setup"
    /\ InitKB

\* the two watchers after the retry; the earlier call is answered at any time
NextRetry ==
    \/ \E t \in activeStatus : StatusTick(t)
    \/ \E t \in activePoll : PollTick(t)
    \/ \E r \in RecordingResponses : FetchRecordingResponse(r)
    \/ \E r \in TranscriptResponses : FetchTranscriptResponse(r)
    \/ \E r \in TranscriptResponses : EarlierFetchResponse(r)

SpecRetry == InitRetry /\ [][NextRetry]_vars

\* the recording view with its recording loaded: the editor of the title next
\* to the status watcher, whose responses travel after the back end wrote them
InitTitle ==
    /\ InitEditors
    /\ InitPanels
    /\ InitLoaded
    /\ InitPlaying
    /\ InitMinutes
    /\ playbackRate = 100
    /\ rateHistory = <<>>
    /\ route = "transcription"
    /\ InitChat
    /\ projectView = "setup"
    /\ InitKB

NextTitle ==
    \/ StartEditingName
    \/ \E text \in RecordingNames : TypeRecordingName(text)
    \/ SaveRecordingName
    \/ \E req \in BagToSet(editNet) : \E r \in UpdateResponses :
          SaveRecordingNameResponse(req, r)
    \/ \E t \in activeStatus : StatusTick(t)
    \/ ServeRecording([Response(200) EXCEPT !.rstatus = "completed"])
    \/ \E a \in RecordingAnswers : FetchRecordingDelivered(a)
    \/ FetchRecordingResponse(Response(0))

SpecTitle == InitTitle /\ [][NextTitle]_vars

\* the chat panel of the workspace with the list of two sessions fetched and
\* none of them opened
InitSessions ==
    /\ InitView
    /\ playbackRate = 100
    /\ rateHistory = <<>>
    /\ route = "project-detail"
    /\ InitMinutes
    /\ projectView = "mounted"
    /\ InitKB
    /\ InitEditors
    /\ InitPanels
    /\ chatInput = <<>>
    /\ isChatting = FALSE
    /\ currentSessionId = NoSession
    /\ chatSessions = <<2, 1>>
    /\ chatMessages = <<>>
    /\ chatCalls = <<>>
    /\ chatNet = EmptyBag

\* the user opens sessions and starts new ones; the requests are answered in
\* any order, or fail
NextSessions ==
    \/ \E id \in 1..MaxSessions : LoadSessionMessages(id)
    \/ \E req \in BagToSet(sessionNet) : \E status \in SessionRequestOutcomes :
          LoadSessionMessagesResponse(req, status)
    \/ CreateNewSession
    \/ \E req \in BagToSet(sessionNet) : \E status \in SessionRequestOutcomes :
          CreateNewSessionResponse(req, status)

SpecSessions == InitSessions /\ [][NextSessions]_vars

----------------------------------------------------------------------------
(* Claims: the two watchers (under Spec) *)

\* C1: once a transcript fetch has succeeded (the transcript is held) and no
\* retry has been invoked since, no transcript poll timer is active, whatever
\* the order in which the responses of the fetches in flight arrive.
C1_ResolvedStopsPolling ==
    (transcript # Null /\ InFlight("postTranscribe") = 0) => activePoll = {}

\* C2: at most one transcript poll timer is active in every reachable state,
\* and it is the one recorded in pollInterval.
C2_AtMostOnePollTimer ==
    /\ Cardinality(activePoll) <= 1
    /\ activePoll \subseteq {pollInterval}

\* C2 witness: the second poll timer of the view is running alone while two
\* transcript fetches are still in flight.
C2_Witness ==
    /\ view = "mounted"
    /\ timerSeq >= 3
    /\ activePoll = {pollInterval}
    /\ InFlight("getTranscript") >= 2

\* C3: in the mounted view, a transcript response with a status other than 404
\* reports the error and leaves no transcript poll timer active.
C3_OtherStatusStopsPolling ==
    [][\A r \in TranscriptResponses :
          (view = "mounted" /\ r.status \notin {0, 200, 404} /\ FetchTranscriptResponse(r))
            => (errorState' # EmptyText /\ activePoll' = {})]_vars

\* C4: a 404 whose detail holds the keyword 'failed' in any case clears the poll
\* timer, surfaces the detail and starts no timer; a 404 without the keyword
\* leaves the failure message alone and leaves a poll timer recorded, started
\* by this response when none was, and running while the view is mounted.
C4_NotFoundHandling ==
    [][\A r \in TranscriptResponses :
          (r.status = 404 /\ FetchTranscriptResponse(r))
            => IF r.detail \in FailedDetails
               THEN /\ errorState' = r.detail
                    /\ pollInterval' = NoTimer
                    /\ pollInterval \notin activePoll'
                    /\ activePoll' \subseteq activePoll
                    /\ timerSeq' = timerSeq
               ELSE /\ errorState' = errorState
                    /\ pollInterval' # NoTimer
                    /\ pollInterval = NoTimer => pollInterval' \in activePoll' \ activePoll
                    /\ pollInterval # NoTimer => pollInterval' = pollInterval
                    /\ view = "mounted" => pollInterval' \in activePoll'
      ]_vars

\* C4 witness: polling had been started and a terminal failure detail has
\* stopped it and is surfaced.
C4_Witness ==
    /\ errorState \in FailedDetails
    /\ timerSeq >= 2
    /\ pollInterval = NoTimer
    /\ activePoll = {}

\* C5: a response of the status watcher leaves the transcript watcher's timer
\* and the surfaced failure message unchanged.
C5_StatusWatcherFrame ==
    [][\A r \in RecordingResponses :
          FetchRecordingResponse(r)
            => /\ pollInterval' = pollInterval
               /\ activePoll' = activePoll
               /\ errorState' = errorState]_vars

\* C6: after the view is unmounted no polling timer is active.
C6_NoTimerAfterUnmount ==
    view = "unmounted" => (activePoll = {} /\ activeStatus = {})

\* C7: a retry whose POST succeeded clears the failure message and the held
\* transcript and leaves exactly one (new) transcript poll timer running; a retry
\* whose POST failed changes neither the transcript nor the timer and sets the
\* retry-failed message.
C7_Retry ==
    [][\A r \in TranscribeResponses :
          RetryTranscribeResponse(r)
            => IF r.status = 200
               THEN /\ errorState' = EmptyText
                    /\ transcript' = Null
                    /\ Cardinality(activePoll') = 1
                    /\ activePoll' = {pollInterval'}
                    /\ pollInterval' \notin activePoll
               ELSE /\ errorState' = MsgRetryFailed
                    /\ transcript' = transcript
                    /\ pollInterval' = pollInterval
                    /\ activePoll' = activePoll
      ]_vars

\* C7 witness: a retry has succeeded while a poll timer was running (the fourth
\* timer of the view replaces it) and a transcript fetch is in flight.
C7_Witness ==
    /\ transcript = Null
    /\ errorState = EmptyText
    /\ timerSeq >= 3
    /\ Cardinality(activePoll) = 1
    /\ pollInterval = timerSeq

----------------------------------------------------------------------------
(* Claims: the media playback controller (under SpecPlayer) *)

Clamp(x, lo, hi) == IF x < lo THEN lo ELSE IF x > hi THEN hi ELSE x

\* C8: with a stop target armed, a time-update tick below the target does not
\* pause; a tick at or beyond it pauses the element, clears isPlaying and clears
\* the target; a tick with no target armed never pauses.
C8_BoundedPlayback ==
    [][OnTimeUpdate =>
          LET now == el.currentTime * 1000
          IN  /\ currentTime' = now
              /\ (stopAt # NoStop /\ now < stopAt)
                    => (el' = el /\ isPlaying' = isPlaying /\ stopAt' = stopAt)
              /\ (stopAt # NoStop /\ now >= stopAt)
                    => (el'.paused /\ ~isPlaying' /\ stopAt' = NoStop)
              /\ stopAt = NoStop
                    => (el' = el /\ isPlaying' = isPlaying /\ stopAt' = NoStop)
      ]_vars

\* C8 witness: the bounded playback of the segment 5000..8000 has stopped at its
\* end: the tick at 8000 ms paused the element and cleared the target.
C8_Witness ==
    /\ audioRef
    /\ el.currentTime = 8
    /\ currentTime = 8000
    /\ el.paused
    /\ ~isPlaying
    /\ stopAt = NoStop
    /\ ~endedPending

\* C9: when no play() promise and no 'ended' event is pending, isPlaying is true
\* exactly when the media element is playing.
C9_IsPlayingSynchronized ==
    (BagCardinality(playPromises) = 0 /\ ~endedPending)
        => (isPlaying <=> (audioRef /\ ~el.paused))

SoughtPosition(e, ms) ==
    LET pos == Clamp(ms \div 1000, 0, e.duration)
    IN  e.currentTime = pos \/ (pos = e.duration /\ ~e.paused /\ e.currentTime = 0)

\* C13: a seekTo issued before the metadata is loaded seeks nothing and plays
\* nothing (it only registers its listener); until the metadata event no step
\* seeks, plays or drops a registered listener; the metadata event runs every
\* registered seek-and-play once (one play() each, the position and stop target
\* of the last one remain) and leaves no listener behind; a seekTo issued with
\* the metadata loaded seeks and plays in the same step.
C13_DeferredSeek ==
    [][/\ \A seg \in Segments :
             SeekToDeferred(seg)
               => /\ metaListeners' = Append(metaListeners, seg)
                  /\ el'.currentTime = el.currentTime
                  /\ el'.paused
                  /\ playPromises' = playPromises
                  /\ stopAt' = stopAt
       /\ (metaListeners # <<>> /\ ~OnLoadedMetadata)
             => /\ Len(metaListeners') >= Len(metaListeners)
                /\ SubSeq(metaListeners', 1, Len(metaListeners)) = metaListeners
                /\ el'.currentTime = el.currentTime
                /\ playPromises' = playPromises
       /\ OnLoadedMetadata
             => /\ metaListeners' = <<>>
                /\ BagCardinality(playPromises')
                      = BagCardinality(playPromises) + Len(metaListeners)
                /\ metaListeners # <<>>
                      => LET last == metaListeners[Len(metaListeners)]
                         IN  /\ SoughtPosition(el', last.start)
                             /\ stopAt' = IF last.end # 0 THEN last.end ELSE NoStop
       /\ \A seg \in Segments :
             SeekToNow(seg)
               => /\ SoughtPosition(el', seg.start)
                  /\ BagCardinality(playPromises') = BagCardinality(playPromises) + 1
                  /\ stopAt' = IF seg.end # 0 THEN seg.end ELSE NoStop
                  /\ metaListeners' = metaListeners
      ]_vars

\* C13 witness: the metadata event has run two deferred seekTo calls, the last
\* one for the segment 8000..9000: two play() promises are pending, no listener
\* is left, and no time-update has been handled yet.
C13_Witness ==
    /\ audioRef
    /\ el.readyState >= 1
    /\ metaListeners = <<>>
    /\ BagCardinality(playPromises) = 2
    /\ el.currentTime = 8
    /\ stopAt = 9000
    /\ currentTime = 0
    /\ duration = 1000 * MediaDuration

----------------------------------------------------------------------------
(* Claims: the playback rate (under SpecSpeed) *)

\* the rate after each rate of the cycle 0.5, 1.0, 1.25, 1.5, 2.0, 0.5, ...
RateSuccessor == [r \in {50, 100, 125, 150, 200} |->
                    CASE r = 50 -> 100 [] r = 100 -> 125 [] r = 125 -> 150
                      [] r = 150 -> 200 [] r = 200 -> 50]

\* C11: changeSpeed moves the rate one step through 0.5, 1.0, 1.25, 1.5, 2.0 and
\* wraps from 2.0 to 0.5; after five consecutive calls the rate is the one the
\* first of them started from; from a rate that is not in the set it yields a
\* rate of the set.
C11_ChangeSpeedCycles ==
    [][ChangeSpeed =>
          /\ playbackRate \in DOMAIN RateSuccessor
                => playbackRate' = RateSuccessor[playbackRate]
          /\ playbackRate' \in DOMAIN RateSuccessor
          /\ (Len(rateHistory') = 5 /\ rateHistory'[1] \in DOMAIN RateSuccessor)
                => playbackRate' = rateHistory'[1]
          /\ audioRef => el'.playbackRate = playbackRate'
      ]_vars

\* C11 witness: five calls from 2.0 have wrapped to 0.5 and come back to 2.0,
\* on a bound element.
C11_Witness ==
    /\ rateHistory = <<200, 50, 100, 125, 150>>
    /\ playbackRate = 200
    /\ audioRef
    /\ el.playbackRate = 200

\* C12: while no media element is bound, a controller operation (togglePlay,
\* seek, seekTo, changeSpeed, time-update, loaded-metadata) leaves isPlaying,
\* currentTime, duration, playbackRate and the stop target unchanged.  (All but
\* changeSpeed return at once when audioRef is null: their step is a stuttering
\* step.)
C12_NullElementNoOps ==
    [][(/\ ~audioRef
        /\ \/ TogglePlay
           \/ \E d \in SeekDeltas : Seek(d)
           \/ \E seg \in Segments : SeekToNow(seg) \/ SeekToDeferred(seg)
           \/ ChangeSpeed
           \/ OnTimeUpdate
           \/ OnLoadedMetadata)
          => UNCHANGED <<isPlaying, currentTime, duration, playbackRate, stopAt>>
      ]_vars

----------------------------------------------------------------------------
(* Claims: the chat stream (under SpecParser) *)

\* what the events of a stream add to the content of the assistant message
RECURSIVE StreamContent(_)
StreamContent(evs) ==
    IF evs = <<>> THEN <<>>
    ELSE LET ev == Head(evs)
             payload == ev.value.o[1][2].s
         IN  (CASE ev.value = JUndefined -> <<>>
                [] ev.event = "answer" -> payload
                [] ev.event = "error" -> <<"\n", "\n", "*Error: ">> \o payload \o <<"*">>
                [] OTHER -> <<>>)
             \o StreamContent(Tail(evs))

\* the events of one kind in a stream, in their order
EventsOf(evs, kind) == SelectSeq(evs, LAMBDA ev : ev.event = kind /\ ev.value # JUndefined)

\* C14: when the chat stream has been read to its end, every event block has been
\* applied exactly once wherever the chunk boundaries fell: the content of the
\* assistant message is the joined payloads (one answer "hello" gives "hello"),
\* and it holds as many thoughts and actions as the stream has such events.
C14_BlocksSurviveChunking ==
    [][\A i \in DOMAIN chatCalls :
          ChatReadDone(i)
            => LET evs == chatCalls[i].events
                   msg == chatCalls'[i].msg
               IN  /\ msg.content = StreamContent(evs)
                   /\ Len(msg.thoughts) = Len(EventsOf(evs, "thought"))
                   /\ Len(msg.actions) = Len(EventsOf(evs, "action"))
      ]_vars

\* C20: when the chat stream has been read to its end, the content of the
\* assistant message is the concatenation of the answer payloads and error
\* annotations in arrival order, its thoughts are the thought payloads in order
\* and its actions the {tool, query} of the action events in order.
C20_EventsAccumulateInOrder ==
    [][\A i \in DOMAIN chatCalls :
          ChatReadDone(i)
            => LET evs == chatCalls[i].events
                   msg == chatCalls'[i].msg
                   thoughts == EventsOf(evs, "thought")
                   actions == EventsOf(evs, "action")
               IN  /\ msg.content = StreamContent(evs)
                   /\ msg.thoughts = [k \in DOMAIN thoughts |-> thoughts[k].value.o[1][2]]
                   /\ msg.actions = [k \in DOMAIN actions |->
                                        [tool |-> actions[k].value.o[1][2],
                                         query |-> actions[k].value.o[2][2]]]
      ]_vars

\* the number of bytes of a stream before its event k, and the number of bytes
\* of the text of an event, without the blank line after it
BytesBefore(evs, k) == Len(Encode(Wire(SubSeq(evs, 1, k - 1))))
EventBytes(ev) == Len(Encode(Block(ev))) - 2

\* the events of the stream of a call that the next n bytes of the stream hold
\* as a block of their own, in their order: the text of the event lies within
\* these bytes, and it begins them or the blank line before it lies within them
ArrivingEvents(call, n) ==
    LET evs == call.events
        from == Len(Encode(Wire(evs))) - Len(call.rest)
        whole(k) == /\ from = BytesBefore(evs, k) \/ from <= BytesBefore(evs, k) - 2
                    /\ BytesBefore(evs, k) + EventBytes(evs[k]) <= from + n
        idx == SelectSeq([k \in DOMAIN evs |-> k], whole)
    IN  [j \in DOMAIN idx |-> evs[idx[j]]]

\* a step is a turn of the read loop of invocation i (ChatRead): the invocation
\* stays in the loop and bytes of its stream are consumed
ReadTurn(i) ==
    /\ i \in DOMAIN chatCalls'
    /\ chatCalls[i].pc = "read"
    /\ chatCalls'[i].pc = "read"
    /\ Len(chatCalls'[i].rest) < Len(chatCalls[i].rest)

\* the size of the chunk that the turn read
BytesOfTurn(i) == Len(chatCalls[i].rest) - Len(chatCalls'[i].rest)

----------------------------------------------------------------------------
(* Claims: the minutes page and the chat (under SpecPages) *)

\* C15: at most one chat stream is in flight (requested and not yet ended) at
\* any time.
C15_OneChatStream ==
    Cardinality({i \in DOMAIN chatCalls : chatCalls[i].pc \in {"fetch", "read"}}) <= 1

\* C17: the step that ends an invocation of startStreaming leaves loading and
\* isGenerating false, and the step that ends an invocation of sendChatMessage
\* leaves isChatting and the isStreaming of its assistant message false, on
\* the success path and on every failure path.
C17_BusyFlagsCleared ==
    [][/\ \A i \in DOMAIN streamCalls :
             (streamCalls[i].pc # "done" /\ streamCalls'[i].pc = "done")
               => (~loading' /\ ~isGenerating')
       /\ \A i \in DOMAIN chatCalls :
             (chatCalls[i].pc # "done" /\ chatCalls'[i].pc = "done")
               => (~isChatting' /\ ~chatCalls'[i].msg.isStreaming)
      ]_vars

\* C17 witness: a generation has failed on a read error after its first chunk:
\* the invocation is over and both flags are false.
C17_Witness ==
    /\ route = "minutes"
    /\ Len(streamCalls) = 1
    /\ streamCalls[1].pc = "done"
    /\ streamContent = <<"a">>
    /\ elMessage = "Generation failed"
    /\ ~loading
    /\ ~isGenerating

\* C18: a step on which the generation fails (response not ok, no reader, read
\* error) keeps the accumulated content, appends an error indicator to it and
\* shows the notification.
C18_FailureMarksContent ==
    [][\A i \in DOMAIN streamCalls :
          (streamCalls[i].pc \in {"fetch", "read"} /\ streamCalls'[i].pc = "done")
            => /\ StartsWith(streamContent', streamContent)
               /\ Len(streamContent') > Len(streamContent)
               /\ elMessage' = "Generation failed"
      ]_vars

\* C19: while a generation is in progress (from startStreaming until the
\* persisted minutes have been fetched again) the content rendered is what that
\* generation has streamed so far.
C19_StreamedValueRendered ==
    \A i \in DOMAIN streamCalls :
        streamCalls[i].pc \in {"fetch", "read", "refresh"}
            => RenderedSource = streamCalls[i].got


----------------------------------------------------------------------------
(* Claims: the generation of the knowledge base (under SpecKnowledge) *)

\* C16: knowledge-base generation never leaves its busy flag stuck: when an
\* invocation of confirmGenerate has set isGeneratingKB and then returns, with
\* no other invocation still running, the flag is false, whatever the stream
\* was (one that ends without 'done' or 'error', one whose last block has no
\* blank line after it, one whose 'done' payload is malformed JSON).
C16_BusyFlagNeverStuck ==
    [][\A i \in DOMAIN kbCalls :
          (/\ kbCalls[i].pc # "done"
           /\ kbCalls'[i].pc = "done"
           /\ \A j \in DOMAIN kbCalls' : kbCalls'[j].pc = "done")
          => ~isGeneratingKB']_vars


\* the bytes of the stream of a call that have been read
BytesRead(call) == Len(Encode(KBWire(call.events, call.terminated))) - Len(call.rest)

\* event k of a stream is complete within its first pos bytes: its block and the
\* blank line that ends it lie within them
CompleteWithin(evs, k, pos) == BytesBefore(evs, k) + EventBytes(evs[k]) + 2 <= pos

\* what the events of a generation stream do, one after the other: 'status'
\* sets the progress message; 'done' replaces the content and ends the
\* operation; 'error' ends it; once an 'error' has ended it the content stays
RECURSIVE GenerationAfter(_, _)
GenerationAfter(st, evs) ==
    IF evs = <<>> THEN st
    ELSE LET ev == Head(evs)
             next ==
               CASE ev.value = JUndefined -> st
                 [] ev.event = "status" -> [st EXCEPT !.status = ev.value.o[1][2]]
                 [] ev.event = "done" ->
                      IF st.failed THEN st
                      ELSE [st EXCEPT !.kb = [@ EXCEPT !.content = ev.value.o[1][2]],
                                      !.generating = FALSE,
                                      !.research = FALSE]
                 [] ev.event = "error" ->
                      [st EXCEPT !.generating = FALSE, !.research = FALSE, !.failed = TRUE]
                 [] OTHER -> st
         IN  GenerationAfter(next, Tail(evs))

\* C23: in the generation stream 'status' only updates the progress message;
\* 'done' replaces the content of the knowledge base with the event's content
\* and ends the operation (busy flag and modal cleared); 'error' ends the
\* operation without changing the content, and no later event of the same
\* stream changes it.  Stated on every turn of the read loop, for the events
\* that the turn completes.
C23_GenerationEvents ==
    [][\A i \in DOMAIN kbCalls : \A n \in 1..Len(kbCalls[i].rest) :
          KBRead(i, n)
            => LET evs == kbCalls[i].events
                   from == BytesRead(kbCalls[i])
                   done(k) == CompleteWithin(evs, k, from)
                   now(k) == ~CompleteWithin(evs, k, from) /\ CompleteWithin(evs, k, from + n)
                   idx == SelectSeq([k \in DOMAIN evs |-> k], now)
                   failed == \E k \in DOMAIN evs : done(k) /\ evs[k].event = "error"
                   after == GenerationAfter([status |-> researchStatusMessage,
                                             kb |-> knowledgeBase,
                                             generating |-> isGeneratingKB,
                                             research |-> showResearchModal,
                                             failed |-> failed],
                                            [j \in DOMAIN idx |-> evs[idx[j]]])
               IN  /\ researchStatusMessage' = after.status
                   /\ knowledgeBase' = after.kb
                   /\ isGeneratingKB' = after.generating
                   /\ showResearchModal' = after.research
      ]_vars

----------------------------------------------------------------------------
(* Claims: statistics and highlighted segment (under SpecTranscript) *)

\* the labels of a transcript's segments
LabelsOf(content) == {content[i].speaker_id : i \in DOMAIN content}

\* the duration spoken in a transcript
SpokenDuration(content) ==
    LET RECURSIVE Sum(_)
        Sum(n) == IF n = 0 THEN 0 ELSE Sum(n - 1) + (content[n].end - content[n].start)
    IN  Sum(Len(content))

RECURSIVE SumOfPercentages(_, _)
SumOfPercentages(stats, n) ==
    IF n = 0 THEN 0 ELSE SumOfPercentages(stats, n - 1) + stats[n].percentage

\* C28: speakerStats is empty when the total spoken duration of all segments
\* is zero (for example when every segment has start equal to end).
C28_ZeroTotalGivesEmptyStats ==
    (Flushed /\ transcript # Null /\ SpokenDuration(transcript.content) = 0)
        => shown.stats = <<>>

\* C29: when the total spoken duration is positive, speakerStats has one entry
\* per distinct speaker label, the entries are sorted by percentage in
\* descending order, and the rounded percentages sum to 100 within half a point
\* per speaker.
C29_StatsWhenPositive ==
    (Flushed /\ transcript # Null /\ SpokenDuration(transcript.content) > 0)
        => LET stats == shown.stats
               n == Len(stats)
               sum == SumOfPercentages(stats, n)
           IN  /\ {stats[i].speaker : i \in 1..n} = LabelsOf(transcript.content)
               /\ n = Cardinality(LabelsOf(transcript.content))
               /\ \A i \in 1..(n - 1) : stats[i].percentage >= stats[i + 1].percentage
               /\ 2 * (sum - 100) <= n
               /\ 2 * (100 - sum) <= n

C29_Witness ==
    /\ Flushed
    /\ transcript # Null
    /\ Len(shown.stats) = 3
    /\ shown.stats[1] = [speaker |-> <<"C">>, percentage |-> 67]
    /\ SumOfPercentages(shown.stats, 3) = 101

\* C30: activeSegmentIndex is the index of the first segment with
\* start <= currentTime <= end, and -1 when no segment contains the current
\* time or no transcript is loaded.
C30_ActiveSegmentIsFirstContaining ==
    Flushed
        => LET within(i) == /\ transcript.content[i].start <= currentTime
                            /\ currentTime <= transcript.content[i].end
               holding == IF transcript = Null THEN {}
                          ELSE {i \in DOMAIN transcript.content : within(i)}
           IN  IF holding = {} THEN shown.active = -1
               ELSE /\ shown.active + 1 \in holding
                    /\ \A i \in holding : shown.active + 1 <= i

C30_Witness ==
    /\ Flushed
    /\ transcript # Null
    /\ currentTime = 5000
    /\ Len(transcript.content) = 3
    /\ transcript.content[1].end = 5000
    /\ transcript.content[2].start = 5000
    /\ shown.active = 0

----------------------------------------------------------------------------
(* Claims: the rename of a speaker (under SpecRename) *)

\* the labels of a list of segments, in order
Labels(content) == [i \in DOMAIN content |-> content[i].speaker_id]

\* C24: a speaker rename rewrites the label of every segment whose label equals
\* the old label and of no other segment, in the step that sends the request;
\* when the trimmed new label is empty or equals the old label nothing is
\* rewritten, no request is sent and edit mode is left.
C24_RenameRewritesOldLabelOnly ==
    [][SaveSpeakerName
         => LET old == editingSpeaker.id
                new == Trim(editingSpeaker.name)
                before == transcript.content
                after == transcript'.content
            IN  IF new = <<>> \/ new = old
                THEN /\ transcript' = transcript
                     /\ editNet' = editNet
                     /\ editingSpeaker' = Null
                ELSE /\ DOMAIN after = DOMAIN before
                     /\ \A i \in DOMAIN before :
                           after[i] = IF before[i].speaker_id = old
                                      THEN [before[i] EXCEPT !.speaker_id = new]
                                      ELSE before[i]
                     /\ editNet' = editNet (+) SetToBag({[kind |-> "putSpeakers",
                                                         original_speaker_id |-> old,
                                                         new_speaker_id |-> new]})
      ]_vars

C24_Witness ==
    /\ BagIn([kind |-> "putSpeakers", original_speaker_id |-> <<"A">>,
              new_speaker_id |-> <<"C">>], editNet)
    /\ transcript # Null
    /\ Labels(transcript.content) = << <<"C">>, <<"B">>, <<"C">> >>
    /\ editingSpeaker = Null

\* C25: when the server rejects a speaker rename, the optimistic relabelling is
\* rolled back: once the rejection has been handled (the failure is reported
\* and the transcript requested again has been answered), the segment labels
\* held by the client equal those of the server.
C25_RejectedRenameRolledBack ==
    (/\ viewMessage = "Failed to update speaker name"
     /\ editNet = EmptyBag
     /\ InFlight("getTranscript") = 0
     /\ transcript # Null)
        => Labels(transcript.content) = Labels(server.transcript.content)

\* C26: after a rename from an old label that has a cached color, the color
\* looked up for the new label equals the color the old label had before the
\* rename, for every pair of labels (a new label that was already displayed,
\* and so already cached, included).
C26_NewLabelInheritsColor ==
    [][(/\ SaveSpeakerName
        /\ Trim(editingSpeaker.name) # <<>>
        /\ Trim(editingSpeaker.name) # editingSpeaker.id
        /\ editingSpeaker.id \in DOMAIN speakerColors)
         => LET new == Trim(editingSpeaker.name)
            IN  CacheColor(speakerColors', new)[new] = speakerColors[editingSpeaker.id]
      ]_vars

----------------------------------------------------------------------------
(* Claims: the inline editors (under SpecEditing) *)

\* C27: committing an inline edit whose value is unchanged never issues a
\* network call, for each of the four editors (speaker label, recording title,
\* recording date, minutes body); committing a blank title or a blank speaker
\* label is rejected locally without a network call.
C27_UnchangedCommitSendsNothing ==
    [][/\ (SaveSpeakerName /\ Trim(editingSpeaker.name) \in {<<>>, editingSpeaker.id})
            => editNet' = editNet
       /\ (SaveRecordingName /\ recording # Null
             /\ Trim(editedName) \in {<<>>, recording.filename})
            => editNet' = editNet
       /\ \A picked \in Dates :
            (SaveRecordingDate(picked) /\ recording # Null
               /\ picked = ParseDate(recording.created_at))
            => editNet' = editNet
       /\ (SaveMinutes /\ editedMinutesContent = RenderedSource)
            => editNet' = editNet
      ]_vars

----------------------------------------------------------------------------
(* Claims: citations in the chat (under SpecCitations) *)

\* the identifiers of the tokens of a text, in order
SourceNames(html) ==
    LET ts == Tokens(html, 1)
    IN  [k \in DOMAIN ts |-> SubSeq(html, ts[k].open + 2, ts[k].close - 1)]

NoTarget == [to |-> "none", id |-> <<>>, section |-> ""]

\* how an identifier must be shown: the four patterns, each with its target
\* and its label, and the badge for every other identifier
ExpectedReference(sourceName) ==
    LET minutesMatch == MatchNamed(sourceName, WordMinutes)
        transcriptMatch == MatchNamed(sourceName, WordTranscript)
        documentMatch == MatchNamed(sourceName, WordDocument)
        keywordMatch == MatchKeyword(sourceName)
    IN  IF minutesMatch # Null
        THEN [interactive |-> TRUE, label |-> minutesMatch.name,
              target |-> [to |-> "minutes", id |-> minutesMatch.id, section |-> ""]]
        ELSE IF transcriptMatch # Null
        THEN [interactive |-> TRUE, label |-> transcriptMatch.name,
              target |-> [to |-> "transcription", id |-> transcriptMatch.id,
                          section |-> ""]]
        ELSE IF documentMatch # Null
        THEN [interactive |-> TRUE, label |-> documentMatch.name,
              target |-> [to |-> "files", id |-> <<>>, section |-> ""]]
        ELSE IF keywordMatch # Null
        THEN [interactive |-> TRUE, label |-> keywordMatch.entry.label,
              target |-> [to |-> "kb", id |-> <<>>,
                          section |-> keywordMatch.entry.section]]
        ELSE [interactive |-> FALSE, label |-> sourceName, target |-> NoTarget]

\* how a piece of the message is shown: interactive or not, its label, and
\* where a click on it leads
ShownReference(piece) ==
    [interactive |-> piece.kind = "link", label |-> piece.text,
     target |-> IF piece.kind = "link" THEN ClickTarget(piece) ELSE NoTarget]

\* C31: every token of the rendered message whose identifier matches one of
\* the four patterns is an interactive reference with the target and the
\* label of its pattern; every other identifier is a badge showing the
\* identifier
C31_CitationsRendered ==
    (chatMessages # <<>> /\ rendered # <<>>) =>
        LET names == SourceNames(MdRender(MessageContent(chatMessages[Len(chatMessages)])))
        IN  \A k \in DOMAIN names :
               /\ 2 * k \in DOMAIN rendered
               /\ ShownReference(rendered[2 * k]) = ExpectedReference(names[k])

----------------------------------------------------------------------------
(* Claims: the search of the transcript (under SpecTranscript) *)

\* text s holds text q somewhere, letters compared without regard to case
ContainsIgnoringCase(s, q) ==
    \E i \in 0..(Len(s) - Len(q)) :
        \A j \in 1..Len(q) : LowerChar(s[i + j]) = LowerChar(q[j])

\* the indices (from 1) of the segments the query selects
Matching(content, query) ==
    {i \in DOMAIN content : \/ ContainsIgnoringCase(content[i].text, query)
                            \/ ContainsIgnoringCase(content[i].speaker_id, query)}

\* the j-th of a set of indices, in ascending order
NthOf(indices, j) == CHOOSE i \in indices : Cardinality({k \in indices : k <= i}) = j

\* the list of segments is shown (no error, a transcript) and up to date
ListFlushed == Flushed /\ transcript # Null /\ errorState = EmptyText

\* C32: the rows shown are exactly the segments whose text or speaker label
\* holds the query, whatever the case, in the order of the transcript; with an
\* empty query they are all the segments; the transcript held is still the one
\* that was fetched
C32_FilterSelectsMatches ==
    ListFlushed =>
        LET content == transcript.content
            selected == Matching(content, searchQuery)
        IN  /\ Len(shown.rows) = Cardinality(selected)
            /\ \A j \in DOMAIN shown.rows : shown.rows[j] = content[NthOf(selected, j)]
            /\ searchQuery = <<>> => shown.rows = content
            /\ transcript = server.transcript

\* the query 'H' has selected the two segments with the text 'h' out of three
C32_Witness ==
    /\ ListFlushed
    /\ searchQuery = <<"H">>
    /\ Len(transcript.content) = 3
    /\ Len(shown.rows) = 2
    /\ shown.rows[2] = transcript.content[3]

----------------------------------------------------------------------------
(* Claims: responses that cross a retry (under SpecRetry) *)

\* a call of fetchTranscript that began before the retry is answered in this step
EarlierFetchAnswered == CopiesIn(EarlierFetch, net') < CopiesIn(EarlierFetch, net)

\* C33: after a retry, the response to a transcript request made before the
\* retry neither sets the transcript nor stops the polling the retry started:
\* the step that handles it leaves transcript, pollInterval and the live poll
\* timers as they are
C33_EarlierResponseIgnored ==
    [][EarlierFetchAnswered =>
          /\ transcript' = transcript
          /\ pollInterval' = pollInterval
          /\ activePoll' = activePoll]_vars

----------------------------------------------------------------------------
(* Claims: the title and the status watcher (under SpecTitle) *)

\* C35: one edit of the title issues at most one update request: while a
\* request of the title is in flight, no step (a second commit by Enter or by
\* loss of focus) sends another one
C35_OneRequestPerEdit ==
    [][NamePuts(editNet) > 0 => NamePuts(editNet') <= NamePuts(editNet)]_vars

\* a response to the status poll that holds a filename the back end has
\* replaced since is delivered in this step
StaleStatusDelivered ==
    \E a \in RecordingAnswers :
        /\ BagCardinality(net') < BagCardinality(net)
        /\ ~BagIn(a, net')
        /\ a.held.filename # server.filename

\* C36: after a title update succeeded, the filename held by the view is the
\* new one, and the delivery of a status response written before the update
\* does not put the old one back
C36_TitleNotReverted ==
    [][(/\ StaleStatusDelivered
        /\ viewMessage = "Renamed successfully"
        /\ recording # Null
        /\ recording.filename = server.filename)
          => (recording' # Null /\ recording'.filename = recording.filename)]_vars

----------------------------------------------------------------------------
(* Claims: the sessions of the chat (under SpecSessions) *)

\* C37: once every session request is answered, the messages held are those
\* of the session whose id is currentSessionId
C37_MessagesOfActiveSession ==
    (sessionNet = EmptyBag /\ currentSessionId # NoSession)
        => chatMessages = SessionMessages(currentSessionId)

----------------------------------------------------------------------------
(* Claims: a failed generation of the knowledge base (under SpecKnowledge) *)

\* no generation is running and the last one ended with the error notice (a
\* response that is not ok, a read that throws, or an 'error' event)
GenerationFailed ==
    /\ kbCalls # <<>>
    /\ \A i \in DOMAIN kbCalls : kbCalls[i].pc = "done"
    /\ ~isGeneratingKB
    /\ kbMessage.type = "error"

\* C38: a generation that fails leaves the knowledge base as it was before it
\* started: the view then holds what it fetched from the back end, or nothing
\* when the project has no knowledge base
C38_FailedGenerationKeepsKnowledgeBase ==
    GenerationFailed => knowledgeBase \in {Null, StoredKnowledgeBase}

----------------------------------------------------------------------------
(* Claims: the accumulator and the start of a generation (under SpecPages) *)

\* C39: while the chunks of a generation are being read, streamContent is the
\* concatenation, in arrival order, of the texts of the chunks read since
\* startStreaming emptied it; no other action (the Save Draft button, which
\* runs fetchMinutes) replaces or reorders it
C39_AccumulatorIsChunksSoFar ==
    \A i \in DOMAIN streamCalls :
        streamCalls[i].pc = "read" => streamContent = streamCalls[i].got

\* the fetchMinutes of onMounted is answered with a failure that is not 404
MountFetchFailsOtherwise ==
    \E r \in MinutesResponses :
        /\ r.status \notin {200, 404}
        /\ MinutesResponse(MinutesRequest("mount", 0), r)

\* C40: onMounted starts a generation only when the back end answers 404 (no
\* minutes yet); when its fetchMinutes fails for another reason no invocation
\* of startStreaming is made
C40_GenerationOnlyWhenNoMinutes ==
    [][MountFetchFailsOtherwise
          => (streamCalls' = streamCalls /\ isGenerating' = isGenerating)]_vars

=============================================================================
